---- MODULE Spec2Model ----
(***************************************************************************)
(* A model of the PCjs x86 debugger (modules/pcjs/lib/debugger.js): the    *)
(* segmented address model (getSegment, getAddr, checkLimit, incAddr, the  *)
(* byte/word/dword accessors) and the breakpoint engine (addBreakpoint,    *)
(* findBreakpoint, clearBreakpoints, mapBreakpoint, checkBreakpoint and    *)
(* the command sequences attached to breakpoints), the expression          *)
(* evaluator (parseExpression, evalExpression, parseValue), the execution  *)
(* history and the trace buffer (historyInit, checkInstruction, traceLog), *)
(* the instruction decoder (getInstruction: the prefix loop, the opcode,   *)
(* 0x0F and group tables, and the operand handlers getModRMOperand,        *)
(* getSIBOperand, getRegOperand, getImmOperand), stepping over an          *)
(* instruction (doStep) and the symbol table (addSymbols, findSymbol).     *)
(*                                                                         *)
(* Every handler of the debugger is one action; the handler's code is a    *)
(* pure operator over a record of the debugger's fields (the operators     *)
(* keep the names of the JavaScript methods).                              *)
(***************************************************************************)
EXTENDS Integers, Sequences, FiniteSets, TLC

VARIABLES
    cpuMode,            \* the CPU (collaborator): "reset", "real" or "prot"
    descLoaded,         \* whether the descriptor of selector SelData is loaded
    maskAddr,           \* this.maskAddr (bus.nBusLimit)
    aBreakExec,         \* this.aBreakExec without its [0] label
    aBreakRead,         \* this.aBreakRead without its [0] label
    aBreakWrite,        \* this.aBreakWrite without its [0] label
    nSuppressBreaks,    \* this.nSuppressBreaks
    cpuRunning,         \* cpu.isRunning()
    fRunning,           \* this.aFlags.fRunning
    busMemBreaks,       \* the Bus: how often each memory trap <<addr, fWrite>> is registered
    nStep,              \* this.nStep: 0, or 1 or 2 while "p" or "pr" steps over
    bitsMessage,        \* the categories "int" and "halt" of this.bitsMessage
    dbgAddrNextData,    \* this.dbgAddrNextData, the cursor of the dump commands
    aVariables,         \* this.aVariables, the variables of "let"
    regEAX,             \* cpu.regEAX
    model,              \* cpu.model
    sInput,             \* the command lines the user is still to type
    DEBUG,              \* the global DEBUG: a debug build or a release build
    aOpcodeHistory,     \* this.aOpcodeHistory, the ring of the history
    iOpcodeHistory,     \* this.iOpcodeHistory, the cursor of the ring
    aaOpcodeCounts,     \* the counts aaOpcodeCounts[b][1] of the 256 opcodes
    traceEnabled,       \* the categories whose this.traceEnabled[prop] is true
    iTraceBuffer,       \* this.iTraceBuffer
    aTraceBuffer,       \* this.aTraceBuffer
    aCode,              \* the bytes of the code segment "u" disassembles
    dbgAddrCode,        \* the dbgAddr of doUnassemble() and getInstruction()
    pcIns,              \* where doUnassemble() and its getInstruction() are
    bOpcode,            \* getInstruction(): bOpcode
    cMaxOverrides,      \* getInstruction(): cMaxOverrides
    cOverrides,         \* getInstruction(): cOverrides
    fDataPrefix,        \* getInstruction(): fDataPrefix
    fAddrPrefix,        \* getInstruction(): fAddrPrefix
    aOpDesc,            \* getInstruction(): aOpDesc
    bModRM,             \* getInstruction(): bModRM
    aSymbolTable,       \* this.aSymbolTable: [addr, size, aSymbols, aOffsetPairs]
    last                \* what the last handler was given and what it returned

vars == <<cpuMode, descLoaded, maskAddr, aBreakExec, aBreakRead, aBreakWrite,
          nSuppressBreaks, cpuRunning, fRunning, nStep, bitsMessage,
          dbgAddrNextData, busMemBreaks,
          aVariables, regEAX, model, sInput, DEBUG, aOpcodeHistory, iOpcodeHistory,
          aaOpcodeCounts, traceEnabled, iTraceBuffer, aTraceBuffer, aCode,
          dbgAddrCode, pcIns, bOpcode, cMaxOverrides, cOverrides, fDataPrefix,
          fAddrPrefix, aOpDesc, bModRM, aSymbolTable, last>>

\* The fields of the breakpoint engine and of the address model
dbgVars == <<cpuMode, descLoaded, maskAddr, aBreakExec, aBreakRead, aBreakWrite,
             nSuppressBreaks, cpuRunning, fRunning, nStep, bitsMessage,
             dbgAddrNextData, busMemBreaks>>

\* The fields the expression evaluator reads
evalVars == <<aVariables, regEAX, model, sInput>>

\* The execution history
histVars == <<aOpcodeHistory, iOpcodeHistory, aaOpcodeCounts>>

\* The build and the instruction trace
traceVars == <<DEBUG, traceEnabled, iTraceBuffer, aTraceBuffer>>

\* The disassembly: the code, its address and the locals of getInstruction()
insVars == <<aCode, dbgAddrCode, pcIns, bOpcode, cMaxOverrides, cOverrides,
             fDataPrefix, fAddrPrefix, aOpDesc, bModRM>>

-----------------------------------------------------------------------------
(* Values of the program *)

\* X86.ADDR_INVALID: what getAddr() returns for an address that does not resolve
ADDR_INVALID == -1

\* JavaScript's null (and undefined) in a numeric field of a DbgAddr
Null == -2

\* Debugger.ADDR.REAL, Debugger.ADDR.PROT, Debugger.ADDR.LINEAR
ADDR_REAL == 1

ADDR_PROT == 2

ADDR_LINEAR == 4

\* The selector in CS while the CPU is in real mode (0xF000), the code
\* selector it runs with in protected mode, and a protected-mode data selector
SelRomCS == 61440

SelProtCS == 8

SelData == 24

\* seg.offMax and seg.maskAddr of a 16-bit segment (0x10000, 0xffff)
OffMaxReal == 65536

MaskAddr16 == 65535

\* The limit + 1 of the protected-mode segment of SelData, and its base
OffMaxData == 512

BaseData == 131072

\* The bus limits of a 20-bit (8086) and of a 24-bit (80286) address bus
BusLimit20 == 1048575

BusLimit24 == 16777215

-----------------------------------------------------------------------------
(* Bit operations on non-negative integers *)

RECURSIVE BitAnd(_, _)
BitAnd(a, b) ==
    IF a = 0 \/ b = 0 THEN 0
    ELSE (IF a % 2 = 1 /\ b % 2 = 1 THEN 1 ELSE 0) + 2 * BitAnd(a \div 2, b \div 2)

\* x & ~0xffff
ClearLow16(x) == x - (x % 65536)

\* The byte b as the top byte of a signed 32-bit value (b << 24)
ShiftLeft24(b) == (IF b >= 128 THEN b - 256 ELSE b) * 16777216

-----------------------------------------------------------------------------
(* The CPU and its segments (collaborators of the debugger) *)

NoSeg == [valid |-> FALSE, none |-> TRUE, base |-> 0, offMax |-> 0, maskAddr |-> 0]

Seg(base, offMax, valid) ==
    [valid |-> valid, none |-> FALSE, base |-> base, offMax |-> offMax,
     maskAddr |-> MaskAddr16]

\* cpu.getCS()
getCS == IF cpuMode = "prot" THEN SelProtCS ELSE SelRomCS

\* cpu.segCS: after a reset CS addresses the top 64Kb of the address space,
\* after the first inter-segment JMP the top of the first megabyte
segCS ==
    CASE cpuMode = "reset" -> Seg(ClearLow16(maskAddr), OffMaxReal, TRUE)
      [] cpuMode = "real"  -> Seg(SelRomCS * 16, OffMaxReal, TRUE)
      [] OTHER             -> Seg(0, OffMaxReal, TRUE)

\* seg.loadReal(sel), with the limit and offMax getSegment() sets afterwards
loadReal(sel) == Seg((IF sel = Null THEN 0 ELSE sel) * 16, OffMaxReal, TRUE)

\* seg.probeDesc(sel): the descriptor of sel, if one is loaded
probeDesc(sel) ==
    IF sel = SelData /\ descLoaded THEN Seg(BaseData, OffMaxData, TRUE)
    ELSE Seg(0, 0, FALSE)

\* seg.checkReadDebugger(off, nb) and seg.checkWriteDebugger(off, nb)
checkReadDebugger(seg, off, nb) ==
    IF seg.valid /\ off >= 0 /\ off + nb <= seg.offMax THEN seg.base + off
    ELSE ADDR_INVALID

\* X86.MODEL_8086, X86.MODEL_80286 and X86.MODEL_80386
MODEL_8086 == 8086

MODEL_80286 == 80286

MODEL_80386 == 80386

\* X86.OPCODE.INT3
OPCODE_INT3 == 204

\* cpu.probeAddr(addr): the byte of memory at a linear address; the memory
\* holds an INT3 at offset 0x100 of every 4Kb page
probeAddr(addr) == IF addr % 4096 = 256 THEN OPCODE_INT3 ELSE (addr * 7 + 3) % 251

-----------------------------------------------------------------------------
(* The address model *)

getCurrentMode == cpuMode = "prot"

getCurrentType == IF getCurrentMode THEN ADDR_PROT ELSE ADDR_REAL

\* A DbgAddr as setAddr() makes it; type 0 takes the current type
newAddr(off, sel, addr, type) ==
    [off |-> off, sel |-> sel, addr |-> addr,
     type |-> IF type = 0 THEN getCurrentType ELSE type,
     fTempBreak |-> FALSE, fCmds |-> FALSE, aCmds |-> <<>>]

\* getSegment() with the type it settles on and the current type
getSegmentOfType(sel, type, typeDefault, nSuppress) ==
    IF type = typeDefault /\ sel = getCS THEN segCS
    ELSE IF type = typeDefault /\ nSuppress # 0 /\ type = ADDR_PROT THEN NoSeg
    ELSE IF type # ADDR_PROT THEN loadReal(sel)
    ELSE probeDesc(sel)

getSegment(sel, type, nSuppress) ==
    getSegmentOfType(sel, IF type = 0 THEN getCurrentType ELSE type, getCurrentType,
                     nSuppress)

\* getAddr() returns the linear address and caches it in dbgAddr.addr:
\* the result is [addr, dbgAddr]
setLinear(dbgAddr, addr) ==
    [addr |-> addr, dbgAddr |-> [dbgAddr EXCEPT !.addr = addr]]

getAddrInSeg(dbgAddr, nb, seg) ==
    IF seg.none THEN [addr |-> ADDR_INVALID, dbgAddr |-> dbgAddr]
    ELSE setLinear(dbgAddr, checkReadDebugger(seg, dbgAddr.off, nb))

getAddr(dbgAddr, nb, nSuppress) ==
    IF dbgAddr.addr # Null THEN [addr |-> dbgAddr.addr, dbgAddr |-> dbgAddr]
    ELSE getAddrInSeg(dbgAddr, nb, getSegment(dbgAddr.sel, dbgAddr.type, nSuppress))

\* checkLimit() returns whether the offset is within the segment, and the
\* DbgAddr with its offset masked when fUpdate is set: [ok, dbgAddr]
checkLimitOff(dbgAddr, fUpdate, off, offMax) ==
    IF off >= offMax THEN [ok |-> FALSE, dbgAddr |-> dbgAddr]
    ELSE [ok |-> TRUE,
          dbgAddr |-> IF fUpdate THEN [dbgAddr EXCEPT !.off = off] ELSE dbgAddr]

checkLimitInSeg(dbgAddr, fUpdate, seg) ==
    IF ~seg.none
    THEN checkLimitOff(dbgAddr, fUpdate, BitAnd(dbgAddr.off, seg.maskAddr), seg.offMax)
    ELSE [ok |-> TRUE, dbgAddr |-> dbgAddr]

checkLimit(dbgAddr, fUpdate, nSuppress) ==
    IF dbgAddr.sel # Null
    THEN checkLimitInSeg(dbgAddr, fUpdate,
                         getSegment(dbgAddr.sel, dbgAddr.type, nSuppress))
    ELSE [ok |-> TRUE, dbgAddr |-> dbgAddr]

\* incAddr(): the linear address advances, then the offset, and an offset that
\* checkLimit() refuses invalidates the address
incLinear(dbgAddr, inc) ==
    IF dbgAddr.addr # Null THEN [dbgAddr EXCEPT !.addr = @ + inc] ELSE dbgAddr

incLimited(dbgAddr, nSuppress) ==
    IF ~checkLimit(dbgAddr, FALSE, nSuppress).ok
    THEN [dbgAddr EXCEPT !.off = 0, !.addr = Null]
    ELSE dbgAddr

incOffset(dbgAddr, inc, nSuppress) ==
    IF dbgAddr.sel # Null THEN incLimited([dbgAddr EXCEPT !.off = @ + inc], nSuppress)
    ELSE dbgAddr

incAddr(dbgAddr, inc, nSuppress) ==
    incOffset(incLinear(dbgAddr, IF inc = 0 THEN 1 ELSE inc),
              IF inc = 0 THEN 1 ELSE inc, nSuppress)

\* getByte(), getShort() and getLong() return [val, dbgAddr]; r is what
\* getAddr() returned
incAfter(dbgAddr, inc, nSuppress) ==
    IF inc # 0 THEN incAddr(dbgAddr, inc, nSuppress) ELSE dbgAddr

getByteAt(r, inc, nSuppress) ==
    IF r.addr # ADDR_INVALID
    THEN [val |-> probeAddr(r.addr), dbgAddr |-> incAfter(r.dbgAddr, inc, nSuppress)]
    ELSE [val |-> 255, dbgAddr |-> r.dbgAddr]

getByte(dbgAddr, inc, nSuppress) == getByteAt(getAddr(dbgAddr, 1, nSuppress), inc, nSuppress)

\* getShort() with the result of getByte()
getShortByteSentinel(dbgAddr, inc, nSuppress) ==
    getByteAt(getAddr(dbgAddr, 2, nSuppress), inc, nSuppress)

getShortAt(r, inc, nSuppress) ==
    IF r.addr # ADDR_INVALID
    THEN [val |-> probeAddr(r.addr) + 256 * probeAddr(r.addr + 1),
          dbgAddr |-> incAfter(r.dbgAddr, inc, nSuppress)]
    ELSE [val |-> 65535, dbgAddr |-> r.dbgAddr]

getShort(dbgAddr, inc, nSuppress) ==
    getShortAt(getAddr(dbgAddr, 2, nSuppress), inc, nSuppress)

getLongAt(r, inc, nSuppress) ==
    IF r.addr # ADDR_INVALID
    THEN [val |-> probeAddr(r.addr) + 256 * probeAddr(r.addr + 1)
                  + 65536 * probeAddr(r.addr + 2)
                  + ShiftLeft24(probeAddr(r.addr + 3)),
          dbgAddr |-> incAfter(r.dbgAddr, inc, nSuppress)]
    ELSE [val |-> -1, dbgAddr |-> r.dbgAddr]

getLong(dbgAddr, inc, nSuppress) ==
    getLongAt(getAddr(dbgAddr, 4, nSuppress), inc, nSuppress)

-----------------------------------------------------------------------------
(* The debugger's fields as one record, which the handlers below transform *)

\* cleared: clearBreakpoints() has replaced the three arrays by new ones
\* log: what the handler did, in order
Dbg ==
    [exec |-> aBreakExec, read |-> aBreakRead, write |-> aBreakWrite,
     nSuppressBreaks |-> nSuppressBreaks, cpuRunning |-> cpuRunning,
     fRunning |-> fRunning, nStep |-> nStep, bitsMessage |-> bitsMessage,
     busMemBreaks |-> busMemBreaks,
     aOpcodeHistory |-> aOpcodeHistory, iOpcodeHistory |-> iOpcodeHistory,
     aaOpcodeCounts |-> aaOpcodeCounts,
     cleared |-> FALSE, log |-> <<>>]

\* One entry of the log: e names the step, n is a number (an index of the
\* array or the counter), b a flag, c a list's name or a command and bp the
\* breakpoint concerned
Ev(e, n, b, c, bp) == [e |-> e, n |-> n, b |-> b, c |-> c, bp |-> bp]

NoAddr == newAddr(0, Null, Null, ADDR_LINEAR)

Log(D, ev) == [D EXCEPT !.log = Append(@, ev)]

List(D, which) ==
    CASE which = "exec" -> D.exec
      [] which = "read" -> D.read
      [] OTHER          -> D.write

SetList(D, which, arr) ==
    CASE which = "exec" -> [D EXCEPT !.exec = arr]
      [] which = "read" -> [D EXCEPT !.read = arr]
      [] OTHER          -> [D EXCEPT !.write = arr]

\* aBreak.splice(1, 1): the first breakpoint goes, whatever i is
SpliceFirst(aBreak, i) ==
    [k \in 1..(Len(aBreak) - 1) |-> aBreak[k + 1]]

\* aBreak.splice(i, 1)
Splice(aBreak, i) ==
    [k \in 1..(Len(aBreak) - 1) |-> IF k < i THEN aBreak[k] ELSE aBreak[k + 1]]

\* messageEnabled(Messages.INT | Messages.HALT): both bits are set
messageEnabledIntHalt(D) == {"int", "halt"} \subseteq D.bitsMessage

-----------------------------------------------------------------------------
(* The opcode tables and the instruction decoder *)

\* X86.MODEL_80186
MODEL_80186 == 80186

\* X86.OPCODE.OS and X86.OPCODE.AS: the operand-size and address-size prefixes
OPCODE_OS == 102

OPCODE_AS == 103

\* Debugger.INS.OP0F: the ordinal of the 0x0F escape
INS_OP0F == 205

\* Debugger.TYPE_PREFIX, a value of the size field of a type (type & TYPE_SIZE)
TYPE_PREFIX == 15

\* Debugger.INS_NAMES: the mnemonics, by instruction ordinal
INS_NAMES ==
    <<
      "INVALID", "AAA", "AAD", "AAM", "AAS", "ADC", "ADD", "AND",
      "ARPL", "AS:", "BOUND", "BSF", "BSR", "BT", "BTC", "BTR",
      "BTS", "CALL", "CBW", "CLC", "CLD", "CLI", "CLTS", "CMC",
      "CMP", "CMPSB", "CMPSW", "CS:", "CWD", "DAA", "DAS", "DEC",
      "DIV", "DS:", "ENTER", "ES:", "ESC", "FADD", "FBLD", "FBSTP",
      "FCOM", "FCOMP", "FDIV", "FDIVR", "FIADD", "FICOM", "FICOMP", "FIDIV",
      "FIDIVR", "FILD", "FIMUL", "FIST", "FISTP", "FISUB", "FISUBR", "FLD",
      "FLDCW", "FLDENV", "FMUL", "FNSAVE", "FNSTCW", "FNSTENV", "FNSTSW", "FRSTOR",
      "FS:", "FST", "FSTP", "FSUB", "FSUBR", "GS:", "HLT", "IDIV",
      "IMUL", "IN", "INC", "INS", "INT", "INT3", "INTO", "IRET",
      "JBE", "JC", "JCXZ", "JG", "JGE", "JL", "JLE", "JMP",
      "JA", "JNC", "JNO", "JNP", "JNS", "JNZ", "JO", "JP",
      "JS", "JZ", "LAHF", "LAR", "LDS", "LEA", "LEAVE", "LES",
      "LFS", "LGDT", "LGS", "LIDT", "LLDT", "LMSW", "LOADALL", "LOCK",
      "LODSB", "LODSW", "LOOP", "LOOPNZ", "LOOPZ", "LSL", "LSS", "LTR",
      "MOV", "MOVSB", "MOVSW", "MOVSX", "MOVZX", "MUL", "NEG", "NOP",
      "NOT", "OR", "OS:", "OUT", "OUTS", "POP", "POPA", "POPF",
      "PUSH", "PUSHA", "PUSHF", "RCL", "RCR", "REPNZ", "REPZ", "RET",
      "RETF", "ROL", "ROR", "SAHF", "SALC", "SAR", "SBB", "SCASB",
      "SCASW", "SETBE", "SETC", "SETG", "SETGE", "SETL", "SETLE", "SETNBE",
      "SETNC", "SETNO", "SETNP", "SETNS", "SETNZ", "SETO", "SETP", "SETS",
      "SETZ", "SGDT", "SHL", "SHLD", "SHR", "SHRD", "SIDT", "SLDT",
      "SMSW", "SS:", "STC", "STD", "STI", "STOSB", "STOSW", "STR",
      "SUB", "TEST", "VERR", "VERW", "WAIT", "XCHG", "XLAT", "XOR"
    >>

\* A descriptor is the sequence of the ordinal of its instruction (Debugger.INS)
\* and the types of its operands (Debugger.TYPE_*), as numbers
aOpDescPopCS == <<133, 8563>>
aOpDescUndefined == <<0, 0>>
aOpDesc0F == <<205, 12291>>

\* Debugger.aaOpDescs: the descriptor of every opcode, as the 8086 has them
aaOpDescs ==
    <<
      <<6, 12417, 4273>>,          \* 0x00 ADD
      <<6, 12420, 4276>>,          \* 0x01 ADD
      <<6, 12465, 4225>>,          \* 0x02 ADD
      <<6, 12468, 4228>>,          \* 0x03 ADD
      <<6, 12385, 4097>>,          \* 0x04 ADD
      <<6, 14436, 4100>>,          \* 0x05 ADD
      <<136, 4211>>,               \* 0x06 PUSH
      <<133, 8307>>,               \* 0x07 POP
      <<129, 12417, 4273>>,        \* 0x08 OR
      <<129, 12420, 4276>>,        \* 0x09 OR
      <<129, 12465, 4225>>,        \* 0x0A OR
      <<129, 12468, 4228>>,        \* 0x0B OR
      <<129, 12385, 4097>>,        \* 0x0C OR
      <<129, 14436, 4100>>,        \* 0x0D OR
      <<136, 4467>>,               \* 0x0E PUSH
      aOpDescPopCS,                \* 0x0F POP
      <<5, 12417, 4273>>,          \* 0x10 ADC
      <<5, 12420, 4276>>,          \* 0x11 ADC
      <<5, 12465, 4225>>,          \* 0x12 ADC
      <<5, 12468, 4228>>,          \* 0x13 ADC
      <<5, 12385, 4097>>,          \* 0x14 ADC
      <<5, 14436, 4100>>,          \* 0x15 ADC
      <<136, 4723>>,               \* 0x16 PUSH
      <<133, 8819>>,               \* 0x17 POP
      <<150, 12417, 4273>>,        \* 0x18 SBB
      <<150, 12420, 4276>>,        \* 0x19 SBB
      <<150, 12465, 4225>>,        \* 0x1A SBB
      <<150, 12468, 4228>>,        \* 0x1B SBB
      <<150, 12385, 4097>>,        \* 0x1C SBB
      <<150, 14436, 4100>>,        \* 0x1D SBB
      <<136, 4979>>,               \* 0x1E PUSH
      <<133, 9075>>,               \* 0x1F POP
      <<7, 12417, 4273>>,          \* 0x20 AND
      <<7, 12420, 4276>>,          \* 0x21 AND
      <<7, 12465, 4225>>,          \* 0x22 AND
      <<7, 12468, 4228>>,          \* 0x23 AND
      <<7, 12385, 4097>>,          \* 0x24 AND
      <<7, 14436, 4100>>,          \* 0x25 AND
      <<35, 15>>,                  \* 0x26 ES
      <<29>>,                      \* 0x27 DAA
      <<184, 12417, 4273>>,        \* 0x28 SUB
      <<184, 12420, 4276>>,        \* 0x29 SUB
      <<184, 12465, 4225>>,        \* 0x2A SUB
      <<184, 12468, 4228>>,        \* 0x2B SUB
      <<184, 12385, 4097>>,        \* 0x2C SUB
      <<184, 14436, 4100>>,        \* 0x2D SUB
      <<27, 15>>,                  \* 0x2E CS
      <<30>>,                      \* 0x2F DAS
      <<191, 12417, 4273>>,        \* 0x30 XOR
      <<191, 12420, 4276>>,        \* 0x31 XOR
      <<191, 12465, 4225>>,        \* 0x32 XOR
      <<191, 12468, 4228>>,        \* 0x33 XOR
      <<191, 12385, 4097>>,        \* 0x34 XOR
      <<191, 14436, 4100>>,        \* 0x35 XOR
      <<177, 15>>,                 \* 0x36 SS
      <<1>>,                       \* 0x37 AAA
      <<24, 4225, 4273>>,          \* 0x38 CMP
      <<24, 4228, 4276>>,          \* 0x39 CMP
      <<24, 4273, 4225>>,          \* 0x3A CMP
      <<24, 4276, 4228>>,          \* 0x3B CMP
      <<24, 4193, 4097>>,          \* 0x3C CMP
      <<24, 6244, 4100>>,          \* 0x3D CMP
      <<33, 15>>,                  \* 0x3E DS
      <<4>>,                       \* 0x3F AAS
      <<74, 14436>>,               \* 0x40 INC
      <<74, 14692>>,               \* 0x41 INC
      <<74, 14948>>,               \* 0x42 INC
      <<74, 15204>>,               \* 0x43 INC
      <<74, 15460>>,               \* 0x44 INC
      <<74, 15716>>,               \* 0x45 INC
      <<74, 15972>>,               \* 0x46 INC
      <<74, 16228>>,               \* 0x47 INC
      <<31, 14436>>,               \* 0x48 DEC
      <<31, 14692>>,               \* 0x49 DEC
      <<31, 14948>>,               \* 0x4A DEC
      <<31, 15204>>,               \* 0x4B DEC
      <<31, 15460>>,               \* 0x4C DEC
      <<31, 15716>>,               \* 0x4D DEC
      <<31, 15972>>,               \* 0x4E DEC
      <<31, 16228>>,               \* 0x4F DEC
      <<136, 6244>>,               \* 0x50 PUSH
      <<136, 6500>>,               \* 0x51 PUSH
      <<136, 6756>>,               \* 0x52 PUSH
      <<136, 7012>>,               \* 0x53 PUSH
      <<136, 7268>>,               \* 0x54 PUSH
      <<136, 7524>>,               \* 0x55 PUSH
      <<136, 7780>>,               \* 0x56 PUSH
      <<136, 8036>>,               \* 0x57 PUSH
      <<133, 10340>>,              \* 0x58 POP
      <<133, 10596>>,              \* 0x59 POP
      <<133, 10852>>,              \* 0x5A POP
      <<133, 11108>>,              \* 0x5B POP
      <<133, 11364>>,              \* 0x5C POP
      <<133, 11620>>,              \* 0x5D POP
      <<133, 11876>>,              \* 0x5E POP
      <<133, 12132>>,              \* 0x5F POP
      <<137, 32768>>,              \* 0x60 PUSHA
      <<134, 32768>>,              \* 0x61 POPA
      <<10, 37044, 4232>>,         \* 0x62 BOUND
      <<8, 8323, 4275>>,           \* 0x63 ARPL
      <<64, 49167>>,               \* 0x64 FS
      <<69, 49167>>,               \* 0x65 GS
      <<130, 49167>>,              \* 0x66 OS
      <<9, 49167>>,                \* 0x67 AS
      <<136, 36868>>,              \* 0x68 PUSH
      <<72, 45235, 4235>>,         \* 0x69 IMUL
      <<136, 36866>>,              \* 0x6A PUSH
      <<72, 45235, 4234>>,         \* 0x6B IMUL
      <<75, 41041, 6756>>,         \* 0x6C INS
      <<75, 41044, 6756>>,         \* 0x6D INS
      <<132, 39524, 4161>>,        \* 0x6E OUTS
      <<132, 39524, 4164>>,        \* 0x6F OUTS
      <<94, 4145>>,                \* 0x70 JO
      <<90, 4145>>,                \* 0x71 JNO
      <<81, 4145>>,                \* 0x72 JC
      <<89, 4145>>,                \* 0x73 JNC
      <<97, 4145>>,                \* 0x74 JZ
      <<93, 4145>>,                \* 0x75 JNZ
      <<80, 4145>>,                \* 0x76 JBE
      <<88, 4145>>,                \* 0x77 JA
      <<96, 4145>>,                \* 0x78 JS
      <<92, 4145>>,                \* 0x79 JNS
      <<95, 4145>>,                \* 0x7A JP
      <<91, 4145>>,                \* 0x7B JNP
      <<85, 4145>>,                \* 0x7C JL
      <<84, 4145>>,                \* 0x7D JGE
      <<86, 4145>>,                \* 0x7E JLE
      <<83, 4145>>,                \* 0x7F JG
      <<192, 12417, 4097>>,        \* 0x80 GRP1B
      <<193, 12420, 4100>>,        \* 0x81 GRP1W
      <<192, 12417, 4097>>,        \* 0x82 GRP1B
      <<194, 12420, 4097>>,        \* 0x83 GRP1SW
      <<185, 4225, 4273>>,         \* 0x84 TEST
      <<185, 4228, 4276>>,         \* 0x85 TEST
      <<189, 12465, 12417>>,       \* 0x86 XCHG
      <<189, 12468, 12420>>,       \* 0x87 XCHG
      <<120, 8321, 4273>>,         \* 0x88 MOV
      <<120, 8324, 4276>>,         \* 0x89 MOV
      <<120, 8369, 4225>>,         \* 0x8A MOV
      <<120, 8372, 4228>>,         \* 0x8B MOV
      <<120, 8324, 4291>>,         \* 0x8C MOV
      <<101, 8372, 148>>,          \* 0x8D LEA
      <<120, 8387, 4228>>,         \* 0x8E MOV
      <<133, 8324>>,               \* 0x8F POP
      <<127>>,                     \* 0x90 NOP
      <<189, 14436, 14692>>,       \* 0x91 XCHG
      <<189, 14436, 14948>>,       \* 0x92 XCHG
      <<189, 14436, 15204>>,       \* 0x93 XCHG
      <<189, 14436, 15460>>,       \* 0x94 XCHG
      <<189, 14436, 15716>>,       \* 0x95 XCHG
      <<189, 14436, 15972>>,       \* 0x96 XCHG
      <<189, 14436, 16228>>,       \* 0x97 XCHG
      <<18>>,                      \* 0x98 CBW
      <<28>>,                      \* 0x99 CWD
      <<17, 4103>>,                \* 0x9A CALL
      <<188>>,                     \* 0x9B WAIT
      <<138>>,                     \* 0x9C PUSHF
      <<135>>,                     \* 0x9D POPF
      <<147>>,                     \* 0x9E SAHF
      <<98>>,                      \* 0x9F LAHF
      <<120, 8289, 4129>>,         \* 0xA0 MOV
      <<120, 10340, 4132>>,        \* 0xA1 MOV
      <<120, 8225, 4193>>,         \* 0xA2 MOV
      <<120, 8228, 6244>>,         \* 0xA3 MOV
      <<121, 8273, 4161>>,         \* 0xA4 MOVSB
      <<122, 8276, 4164>>,         \* 0xA5 MOVSW
      <<25, 4177, 4161>>,          \* 0xA6 CMPSB
      <<26, 4180, 4164>>,          \* 0xA7 CMPSW
      <<185, 4193, 4097>>,         \* 0xA8 TEST
      <<185, 6244, 4100>>,         \* 0xA9 TEST
      <<181, 8273, 4193>>,         \* 0xAA STOSB
      <<182, 8276, 6244>>,         \* 0xAB STOSW
      <<112, 8289, 4161>>,         \* 0xAC LODSB
      <<113, 10340, 4164>>,        \* 0xAD LODSW
      <<151, 4193, 4177>>,         \* 0xAE SCASB
      <<152, 6244, 4180>>,         \* 0xAF SCASW
      <<120, 8289, 4097>>,         \* 0xB0 MOV
      <<120, 8545, 4097>>,         \* 0xB1 MOV
      <<120, 8801, 4097>>,         \* 0xB2 MOV
      <<120, 9057, 4097>>,         \* 0xB3 MOV
      <<120, 9313, 4097>>,         \* 0xB4 MOV
      <<120, 9569, 4097>>,         \* 0xB5 MOV
      <<120, 9825, 4097>>,         \* 0xB6 MOV
      <<120, 10081, 4097>>,        \* 0xB7 MOV
      <<120, 10340, 4100>>,        \* 0xB8 MOV
      <<120, 10596, 4100>>,        \* 0xB9 MOV
      <<120, 10852, 4100>>,        \* 0xBA MOV
      <<120, 11108, 4100>>,        \* 0xBB MOV
      <<120, 11364, 4100>>,        \* 0xBC MOV
      <<120, 11620, 4100>>,        \* 0xBD MOV
      <<120, 11876, 4100>>,        \* 0xBE MOV
      <<120, 12132, 4100>>,        \* 0xBF MOV
      <<195, 28801, 4097>>,        \* 0xC0 GRP2B
      <<196, 28804, 4097>>,        \* 0xC1 GRP2W
      <<143, 4099>>,               \* 0xC2 RET
      <<143>>,                     \* 0xC3 RET
      <<103, 8372, 4246>>,         \* 0xC4 LES
      <<100, 8372, 4246>>,         \* 0xC5 LDS
      <<120, 8321, 4097>>,         \* 0xC6 MOV
      <<120, 8324, 4100>>,         \* 0xC7 MOV
      <<34, 36867, 4097>>,         \* 0xC8 ENTER
      <<102, 32768>>,              \* 0xC9 LEAVE
      <<144, 4099>>,               \* 0xCA RETF
      <<144>>,                     \* 0xCB RETF
      <<77>>,                      \* 0xCC INT3
      <<76, 4097>>,                \* 0xCD INT
      <<78>>,                      \* 0xCE INTO
      <<79>>,                      \* 0xCF IRET
      <<197, 12417, 4113>>,        \* 0xD0 GRP2B1
      <<198, 12420, 4113>>,        \* 0xD1 GRP2W1
      <<199, 12417, 4449>>,        \* 0xD2 GRP2BC
      <<200, 12420, 4449>>,        \* 0xD3 GRP2WC
      <<3, 1>>,                    \* 0xD4 AAM
      <<2, 1>>,                    \* 0xD5 AAD
      <<148>>,                     \* 0xD6 SALC
      <<190>>,                     \* 0xD7 XLAT
      <<36, 4228>>,                \* 0xD8 ESC
      <<36, 4228>>,                \* 0xD9 ESC
      <<36, 4228>>,                \* 0xDA ESC
      <<36, 4228>>,                \* 0xDB ESC
      <<36, 4228>>,                \* 0xDC ESC
      <<36, 4228>>,                \* 0xDD ESC
      <<36, 4228>>,                \* 0xDE ESC
      <<36, 4228>>,                \* 0xDF ESC
      <<115, 4145>>,               \* 0xE0 LOOPNZ
      <<116, 4145>>,               \* 0xE1 LOOPZ
      <<114, 4145>>,               \* 0xE2 LOOP
      <<82, 4145>>,                \* 0xE3 JCXZ
      <<73, 8289, 4097>>,          \* 0xE4 IN
      <<73, 10340, 4097>>,         \* 0xE5 IN
      <<131, 4097, 4193>>,         \* 0xE6 OUT
      <<131, 4097, 6244>>,         \* 0xE7 OUT
      <<17, 4148>>,                \* 0xE8 CALL
      <<87, 4148>>,                \* 0xE9 JMP
      <<87, 4103>>,                \* 0xEA JMP
      <<87, 4145>>,                \* 0xEB JMP
      <<73, 8289, 6756>>,          \* 0xEC IN
      <<73, 10340, 6756>>,         \* 0xED IN
      <<131, 6756, 4193>>,         \* 0xEE OUT
      <<131, 6756, 6244>>,         \* 0xEF OUT
      <<111, 15>>,                 \* 0xF0 LOCK
      <<0>>,                       \* 0xF1 NONE
      <<141, 15>>,                 \* 0xF2 REPNZ
      <<142, 15>>,                 \* 0xF3 REPZ
      <<70>>,                      \* 0xF4 HLT
      <<23>>,                      \* 0xF5 CMC
      <<201, 12417>>,              \* 0xF6 GRP3B
      <<202, 12420>>,              \* 0xF7 GRP3W
      <<19>>,                      \* 0xF8 CLC
      <<178>>,                     \* 0xF9 STC
      <<21>>,                      \* 0xFA CLI
      <<180>>,                     \* 0xFB STI
      <<20>>,                      \* 0xFC CLD
      <<179>>,                     \* 0xFD STD
      <<203, 12417>>,              \* 0xFE GRP4B
      <<204, 12420>>               \* 0xFF GRP4W
    >>

\* Debugger.aaOp0FDescs: the descriptors of the opcodes after the 0x0F escape,
\* as pairs of the second byte and its descriptor; the other bytes have none
aaOp0FDescs ==
    {
      <<0, <<206, 12419>>>>,                   \* 0x0F 0x00 GRP6
      <<1, <<207, 12419>>>>,                   \* 0x0F 0x01 GRP7
      <<2, <<99, 41139, 4243>>>>,              \* 0x0F 0x02 LAR
      <<3, <<117, 41139, 4243>>>>,             \* 0x0F 0x03 LSL
      <<5, <<110, 32768>>>>,                   \* 0x0F 0x05 LOADALL
      <<6, <<22, 32768>>>>,                    \* 0x0F 0x06 CLTS
      <<32, <<120, 57509, 4309>>>>,            \* 0x0F 0x20 MOV
      <<33, <<120, 57509, 4325>>>>,            \* 0x0F 0x21 MOV
      <<34, <<120, 57557, 4261>>>>,            \* 0x0F 0x22 MOV
      <<35, <<120, 57573, 4261>>>>,            \* 0x0F 0x23 MOV
      <<36, <<120, 57509, 4341>>>>,            \* 0x0F 0x24 MOV
      <<38, <<120, 57589, 4261>>>>,            \* 0x0F 0x26 MOV
      <<128, <<94, 53300>>>>,                  \* 0x0F 0x80 JO
      <<129, <<90, 53300>>>>,                  \* 0x0F 0x81 JNO
      <<130, <<81, 53300>>>>,                  \* 0x0F 0x82 JC
      <<131, <<89, 53300>>>>,                  \* 0x0F 0x83 JNC
      <<132, <<97, 53300>>>>,                  \* 0x0F 0x84 JZ
      <<133, <<93, 53300>>>>,                  \* 0x0F 0x85 JNZ
      <<134, <<80, 53300>>>>,                  \* 0x0F 0x86 JBE
      <<135, <<88, 53300>>>>,                  \* 0x0F 0x87 JA
      <<136, <<96, 53300>>>>,                  \* 0x0F 0x88 JS
      <<137, <<92, 53300>>>>,                  \* 0x0F 0x89 JNS
      <<138, <<95, 53300>>>>,                  \* 0x0F 0x8A JP
      <<139, <<91, 53300>>>>,                  \* 0x0F 0x8B JNP
      <<140, <<85, 53300>>>>,                  \* 0x0F 0x8C JL
      <<141, <<84, 53300>>>>,                  \* 0x0F 0x8D JGE
      <<142, <<86, 53300>>>>,                  \* 0x0F 0x8E JLE
      <<143, <<83, 53300>>>>,                  \* 0x0F 0x8F JG
      <<144, <<165, 57473>>>>,                 \* 0x0F 0x90 SETO
      <<145, <<161, 57473>>>>,                 \* 0x0F 0x91 SETNO
      <<146, <<154, 57473>>>>,                 \* 0x0F 0x92 SETC
      <<147, <<160, 57473>>>>,                 \* 0x0F 0x93 SETNC
      <<148, <<168, 57473>>>>,                 \* 0x0F 0x94 SETZ
      <<149, <<164, 57473>>>>,                 \* 0x0F 0x95 SETNZ
      <<150, <<153, 57473>>>>,                 \* 0x0F 0x96 SETBE
      <<151, <<159, 57473>>>>,                 \* 0x0F 0x97 SETNBE
      <<152, <<167, 57473>>>>,                 \* 0x0F 0x98 SETS
      <<153, <<163, 57473>>>>,                 \* 0x0F 0x99 SETNS
      <<154, <<166, 57473>>>>,                 \* 0x0F 0x9A SETP
      <<155, <<162, 57473>>>>,                 \* 0x0F 0x9B SETNP
      <<156, <<157, 57473>>>>,                 \* 0x0F 0x9C SETL
      <<157, <<156, 57473>>>>,                 \* 0x0F 0x9D SETGE
      <<158, <<158, 57473>>>>,                 \* 0x0F 0x9E SETLE
      <<159, <<155, 57473>>>>,                 \* 0x0F 0x9F SETG
      <<160, <<136, 54387>>>>,                 \* 0x0F 0xA0 PUSH
      <<161, <<133, 58483>>>>,                 \* 0x0F 0xA1 POP
      <<163, <<13, 53380, 4276>>>>,            \* 0x0F 0xA3 BT
      <<164, <<171, 57476, 4276, 4097>>>>,     \* 0x0F 0xA4 SHLD
      <<165, <<171, 57476, 4276, 4449>>>>,     \* 0x0F 0xA5 SHLD
      <<168, <<136, 54643>>>>,                 \* 0x0F 0xA8 PUSH
      <<169, <<133, 58739>>>>,                 \* 0x0F 0xA9 POP
      <<171, <<16, 57476, 4276>>>>,            \* 0x0F 0xAB BTS
      <<172, <<173, 57476, 4276, 4097>>>>,     \* 0x0F 0xAC SHRD
      <<173, <<173, 57476, 4276, 4449>>>>,     \* 0x0F 0xAD SHRD
      <<175, <<72, 61572, 4276>>>>,            \* 0x0F 0xAF IMUL
      <<178, <<118, 8372, 4246>>>>,            \* 0x0F 0xB2 LSS
      <<179, <<15, 57476, 4276>>>>,            \* 0x0F 0xB3 BTR
      <<180, <<104, 8372, 4246>>>>,            \* 0x0F 0xB4 LFS
      <<181, <<106, 8372, 4246>>>>,            \* 0x0F 0xB5 LGS
      <<182, <<124, 57524, 4225>>>>,           \* 0x0F 0xB6 MOVZX
      <<183, <<124, 57525, 4227>>>>,           \* 0x0F 0xB7 MOVZX
      <<186, <<208, 61572, 4097>>>>,           \* 0x0F 0xBA GRP8
      <<187, <<14, 57476, 4276>>>>,            \* 0x0F 0xBB BTC
      <<188, <<11, 57524, 4228>>>>,            \* 0x0F 0xBC BSF
      <<189, <<12, 57524, 4228>>>>,            \* 0x0F 0xBD BSR
      <<190, <<123, 57524, 4225>>>>,           \* 0x0F 0xBE MOVSX
      <<191, <<123, 57525, 4227>>>>            \* 0x0F 0xBF MOVSX
    }

\* Debugger.aaGrpDescs: for every group ordinal, in the order of Debugger.INS,
\* the descriptors the reg field of the ModRM byte selects
aaGrpDescs ==
    <<
      << \* GRP1B
         <<6, 12417, 4097>>,          \* /0 ADD
         <<129, 12417, 4097>>,        \* /1 OR
         <<5, 12417, 4097>>,          \* /2 ADC
         <<150, 12417, 4097>>,        \* /3 SBB
         <<7, 12417, 4097>>,          \* /4 AND
         <<184, 12417, 4097>>,        \* /5 SUB
         <<191, 12417, 4097>>,        \* /6 XOR
         <<24, 4225, 4097>>           \* /7 CMP
      >>,
      << \* GRP1W
         <<6, 12420, 4100>>,          \* /0 ADD
         <<129, 12420, 4100>>,        \* /1 OR
         <<5, 12420, 4100>>,          \* /2 ADC
         <<150, 12420, 4100>>,        \* /3 SBB
         <<7, 12420, 4100>>,          \* /4 AND
         <<184, 12420, 4100>>,        \* /5 SUB
         <<191, 12420, 4100>>,        \* /6 XOR
         <<24, 4228, 4100>>           \* /7 CMP
      >>,
      << \* GRP1SW
         <<6, 12420, 4098>>,          \* /0 ADD
         <<129, 12420, 4098>>,        \* /1 OR
         <<5, 12420, 4098>>,          \* /2 ADC
         <<150, 12420, 4098>>,        \* /3 SBB
         <<7, 12420, 4098>>,          \* /4 AND
         <<184, 12420, 4098>>,        \* /5 SUB
         <<191, 12420, 4098>>,        \* /6 XOR
         <<24, 4228, 4098>>           \* /7 CMP
      >>,
      << \* GRP2B
         <<145, 45185, 4097>>,        \* /0 ROL
         <<146, 45185, 4097>>,        \* /1 ROR
         <<139, 45185, 4097>>,        \* /2 RCL
         <<140, 45185, 4097>>,        \* /3 RCR
         <<170, 45185, 4097>>,        \* /4 SHL
         <<172, 45185, 4097>>,        \* /5 SHR
         aOpDescUndefined,            \* /6 NONE
         <<149, 45185, 4097>>         \* /7 SAR
      >>,
      << \* GRP2W
         <<145, 45188, 4097>>,        \* /0 ROL
         <<146, 45188, 4097>>,        \* /1 ROR
         <<139, 45188, 4097>>,        \* /2 RCL
         <<140, 45188, 4097>>,        \* /3 RCR
         <<170, 45188, 4097>>,        \* /4 SHL
         <<172, 45188, 4097>>,        \* /5 SHR
         aOpDescUndefined,            \* /6 NONE
         <<149, 45188, 4097>>         \* /7 SAR
      >>,
      << \* GRP2B1
         <<145, 12417, 4113>>,        \* /0 ROL
         <<146, 12417, 4113>>,        \* /1 ROR
         <<139, 12417, 4113>>,        \* /2 RCL
         <<140, 12417, 4113>>,        \* /3 RCR
         <<170, 12417, 4113>>,        \* /4 SHL
         <<172, 12417, 4113>>,        \* /5 SHR
         aOpDescUndefined,            \* /6 NONE
         <<149, 12417, 4113>>         \* /7 SAR
      >>,
      << \* GRP2W1
         <<145, 12420, 4113>>,        \* /0 ROL
         <<146, 12420, 4113>>,        \* /1 ROR
         <<139, 12420, 4113>>,        \* /2 RCL
         <<140, 12420, 4113>>,        \* /3 RCR
         <<170, 12420, 4113>>,        \* /4 SHL
         <<172, 12420, 4113>>,        \* /5 SHR
         aOpDescUndefined,            \* /6 NONE
         <<149, 12420, 4113>>         \* /7 SAR
      >>,
      << \* GRP2BC
         <<145, 12417, 4449>>,        \* /0 ROL
         <<146, 12417, 4449>>,        \* /1 ROR
         <<139, 12417, 4449>>,        \* /2 RCL
         <<140, 12417, 4449>>,        \* /3 RCR
         <<170, 12417, 4449>>,        \* /4 SHL
         <<172, 12417, 4449>>,        \* /5 SHR
         aOpDescUndefined,            \* /6 NONE
         <<149, 12417, 4449>>         \* /7 SAR
      >>,
      << \* GRP2WC
         <<145, 12420, 4449>>,        \* /0 ROL
         <<146, 12420, 4449>>,        \* /1 ROR
         <<139, 12420, 4449>>,        \* /2 RCL
         <<140, 12420, 4449>>,        \* /3 RCR
         <<170, 12420, 4449>>,        \* /4 SHL
         <<172, 12420, 4449>>,        \* /5 SHR
         aOpDescUndefined,            \* /6 NONE
         <<149, 12420, 4449>>         \* /7 SAR
      >>,
      << \* GRP3B
         <<185, 4225, 4097>>,         \* /0 TEST
         aOpDescUndefined,            \* /1 NONE
         <<128, 12417>>,              \* /2 NOT
         <<126, 12417>>,              \* /3 NEG
         <<125, 4225>>,               \* /4 MUL
         <<72, 12417>>,               \* /5 IMUL
         <<32, 4225>>,                \* /6 DIV
         <<71, 12417>>                \* /7 IDIV
      >>,
      << \* GRP3W
         <<185, 4228, 4100>>,         \* /0 TEST
         aOpDescUndefined,            \* /1 NONE
         <<128, 12420>>,              \* /2 NOT
         <<126, 12420>>,              \* /3 NEG
         <<125, 4228>>,               \* /4 MUL
         <<72, 12420>>,               \* /5 IMUL
         <<32, 4228>>,                \* /6 DIV
         <<71, 12420>>                \* /7 IDIV
      >>,
      << \* GRP4B
         <<74, 12417>>,               \* /0 INC
         <<31, 12417>>,               \* /1 DEC
         aOpDescUndefined,            \* /2 NONE
         aOpDescUndefined,            \* /3 NONE
         aOpDescUndefined,            \* /4 NONE
         aOpDescUndefined,            \* /5 NONE
         aOpDescUndefined,            \* /6 NONE
         aOpDescUndefined             \* /7 NONE
      >>,
      << \* GRP4W
         <<74, 12420>>,               \* /0 INC
         <<31, 12420>>,               \* /1 DEC
         <<17, 4228>>,                \* /2 CALL
         <<17, 4231>>,                \* /3 CALL
         <<87, 4228>>,                \* /4 JMP
         <<87, 4231>>,                \* /5 JMP
         <<136, 4228>>,               \* /6 PUSH
         aOpDescUndefined             \* /7 NONE
      >>,
      << \* OP0F
      >>,
      << \* GRP6
         <<175, 41091>>,              \* /0 SLDT
         <<183, 41091>>,              \* /1 STR
         <<108, 36995>>,              \* /2 LLDT
         <<119, 36995>>,              \* /3 LTR
         <<186, 36995>>,              \* /4 VERR
         <<187, 36995>>,              \* /5 VERW
         aOpDescUndefined,            \* /6 NONE
         aOpDescUndefined             \* /7 NONE
      >>,
      << \* GRP7
         <<169, 41091>>,              \* /0 SGDT
         <<174, 41091>>,              \* /1 SIDT
         <<105, 36995>>,              \* /2 LGDT
         <<107, 36995>>,              \* /3 LIDT
         <<176, 41091>>,              \* /4 SMSW
         aOpDescUndefined,            \* /5 NONE
         <<109, 36995>>,              \* /6 LMSW
         aOpDescUndefined             \* /7 NONE
      >>,
      << \* GRP8
         aOpDescUndefined,            \* /0 NONE
         aOpDescUndefined,            \* /1 NONE
         aOpDescUndefined,            \* /2 NONE
         aOpDescUndefined,            \* /3 NONE
         <<13, 53380, 4097>>,         \* /4 BT
         <<16, 57476, 4097>>,         \* /5 BTS
         <<15, 57476, 4097>>,         \* /6 BTR
         <<14, 57476, 4097>>          \* /7 BTC
      >>
    >>

\* JavaScript's undefined where a descriptor is expected: what a table gives
\* for an index it has no entry for
NoDesc == <<>>

\* this.aaOpDescs as initBus() makes it for the model of the CPU: the 8086 has
\* POP CS at 0x0F, the 80186 nothing, the others the escape
initBus(m) ==
    IF m >= MODEL_80186
    THEN [aaOpDescs EXCEPT ![16] = IF m >= MODEL_80286 THEN aOpDesc0F
                                   ELSE aOpDescUndefined]
    ELSE aaOpDescs

\* Debugger.aaOp0FDescs[b]
op0FDesc(b) ==
    IF \E e \in aaOp0FDescs : e[1] = b
    THEN (CHOOSE e \in aaOp0FDescs : e[1] = b)[2]
    ELSE NoDesc

\* The same without the default
orNothing(aDesc) == aDesc

\* aDesc || Debugger.aOpDescUndefined
orUndefined(aDesc) == IF aDesc = NoDesc THEN aOpDescUndefined ELSE aDesc

\* Debugger.aaGrpDescs[iGrp][reg]
grpDesc(iGrp, reg) ==
    IF iGrp + 1 \in DOMAIN aaGrpDescs /\ reg + 1 \in DOMAIN aaGrpDescs[iGrp + 1]
    THEN aaGrpDescs[iGrp + 1][reg + 1]
    ELSE NoDesc

\* The dbgAddr "u" starts with: offset 0 of the code, the sizes of the code
\* segment, and initAddrSize(dbgAddr, true) done
codeAddr(f32) ==
    [off |-> 0, fData32 |-> f32, fAddr32 |-> f32, fData32Orig |-> f32,
     fAddr32Orig |-> f32, cOverrides |-> 0, fComplete |-> TRUE]

\* getByte(dbgAddr, 1) on the code: the byte at the offset, 0xff past the
\* limit of the segment, where the address does not advance either
codeByte(dbgAddr) ==
    IF dbgAddr.off < Len(aCode) THEN aCode[dbgAddr.off + 1] ELSE 255

codeNext(dbgAddr) ==
    IF dbgAddr.off < Len(aCode) THEN [dbgAddr EXCEPT !.off = @ + 1] ELSE dbgAddr

\* initAddrSize(dbgAddr, fComplete, cOverrides): after a complete instruction
\* the sizes are those before its prefixes
initAddrSize(dbgAddr, fComplete, c) ==
    IF fComplete
    THEN [dbgAddr EXCEPT !.fComplete = TRUE, !.cOverrides = c,
                         !.fData32 = dbgAddr.fData32Orig,
                         !.fAddr32 = dbgAddr.fAddr32Orig]
    ELSE [dbgAddr EXCEPT !.fComplete = FALSE, !.cOverrides = c]

\* No disassembly is going on
NoDisassembly ==
    /\ aCode = <<>>
    /\ dbgAddrCode = codeAddr(FALSE)
    /\ pcIns = "idle"
    /\ bOpcode = 0
    /\ cMaxOverrides = 0
    /\ cOverrides = 0
    /\ fDataPrefix = FALSE
    /\ fAddrPrefix = FALSE
    /\ aOpDesc = NoDesc
    /\ bModRM = -1

\* The same loop without the limit
whilePrefixes(b, cMax) == b \in {OPCODE_OS, OPCODE_AS}

\* The condition of the prefix loop of getInstruction():
\* (bOpcode == OS || bOpcode == AS) && cMaxOverrides--
whileOverrides(b, cMax) == b \in {OPCODE_OS, OPCODE_AS} /\ cMax # 0

\* cMaxOverrides after the condition has been evaluated
decOverrides(b, cMax) == IF b \in {OPCODE_OS, OPCODE_AS} THEN cMax - 1 ELSE cMax

\* getInstruction() after its loop, at the 0x0F escape: the descriptor of the
\* second byte, or the undefined one
escaped(aDesc, dbgAddr, b) ==
    IF aDesc # NoDesc /\ aDesc[1] = INS_OP0F
    THEN [aOpDesc |-> orUndefined(op0FDesc(codeByte(dbgAddr))),
          dbgAddr |-> codeNext(dbgAddr),
          bOpcode |-> b + codeByte(dbgAddr) * 256,
          bModRM |-> -1]
    ELSE [aOpDesc |-> aDesc, dbgAddr |-> dbgAddr, bOpcode |-> b, bModRM |-> -1]

\* and at a group ordinal: the descriptor the reg field of the ModRM byte
\* selects
grouped(r) ==
    IF r.aOpDesc # NoDesc /\ r.aOpDesc[1] >= Len(INS_NAMES)
    THEN [r EXCEPT !.aOpDesc = grpDesc(r.aOpDesc[1] - Len(INS_NAMES),
                                       (codeByte(r.dbgAddr) \div 8) % 8),
                   !.bModRM = codeByte(r.dbgAddr),
                   !.dbgAddr = codeNext(r.dbgAddr)]
    ELSE r

\* fComplete after the loop over the operands: an operand of TYPE_PREFIX
\* makes the instruction incomplete
isComplete(aDesc) ==
    \A iOperand \in 2..Len(aDesc) : aDesc[iOperand] % 16 # TYPE_PREFIX

-----------------------------------------------------------------------------
(* The execution history *)

\* Debugger.HISTORY_LIMIT, the capacity of the ring
HISTORY_LIMIT == 2

\* messageEnabled(Messages.INT)
messageEnabledInt(D) == "int" \in D.bitsMessage

\* checksEnabled(): always in a debug build, else with a breakpoint in the
\* exec list or with the INT messages on
checksEnabled(D) == DEBUG \/ Len(D.exec) > 0 \/ messageEnabledInt(D)

\* historyInit(): the ring and the counts are freed when checksEnabled() is
\* false, and allocated when it is true and they are not allocated
historyInit(D) ==
    IF ~checksEnabled(D)
    THEN [D EXCEPT !.iOpcodeHistory = 0, !.aOpcodeHistory = <<>>,
                   !.aaOpcodeCounts = <<>>]
    ELSE [D EXCEPT
            !.aOpcodeHistory = IF @ = <<>>
                               THEN [i \in 1..HISTORY_LIMIT |->
                                        newAddr(0, Null, Null, 0)]
                               ELSE @,
            !.iOpcodeHistory = IF D.aOpcodeHistory = <<>> THEN 0 ELSE @,
            !.aaOpcodeCounts = IF @ = <<>> THEN [b \in 1..256 |-> 0] ELSE @]

\* cpu.getIP(): the offset in CS of the instruction at the linear address lip
getIP(lip) == lip - segCS.base

\* The same with the slot after the cursor set
countOpcodeAhead(D, addr) ==
    IF D.aaOpcodeCounts = <<>> THEN D
    ELSE [D EXCEPT
            !.aaOpcodeCounts[probeAddr(addr) + 1] = @ + 1,
            !.aOpcodeHistory[((D.iOpcodeHistory + 1) % Len(D.aOpcodeHistory)) + 1] =
                newAddr(getIP(addr), getCS, Null, 0),
            !.iOpcodeHistory = IF @ + 1 = Len(D.aOpcodeHistory) THEN 0 ELSE @ + 1]

\* The same with a cursor that stays on the last slot of the ring
countOpcodeKeep(D, addr) ==
    IF D.aaOpcodeCounts = <<>> THEN D
    ELSE [D EXCEPT
            !.aaOpcodeCounts[probeAddr(addr) + 1] = @ + 1,
            !.aOpcodeHistory[D.iOpcodeHistory + 1] =
                newAddr(getIP(addr), getCS, Null, 0),
            !.iOpcodeHistory = IF @ + 1 = Len(D.aOpcodeHistory) THEN @ ELSE @ + 1]

\* The end of checkInstruction(): if the counts are allocated, the opcode at
\* addr is counted, the slot of the ring at the cursor is set to CS:IP and
\* the cursor advances, back to 0 at the end of the ring
countOpcode(D, addr) ==
    IF D.aaOpcodeCounts = <<>> THEN D
    ELSE [D EXCEPT
            !.aaOpcodeCounts[probeAddr(addr) + 1] = @ + 1,
            !.aOpcodeHistory[D.iOpcodeHistory + 1] =
                newAddr(getIP(addr), getCS, Null, 0),
            !.iOpcodeHistory = IF @ + 1 = Len(D.aOpcodeHistory) THEN 0 ELSE @ + 1]

\* The history after findBreakpoint() has returned f for the list which:
\* a removal calls historyInit()
removedHistory(D, which, f) ==
    IF f.fFound THEN historyInit(SetList(D, which, f.aBreak)) ELSE D

\* The history after addBreakpoint() has pushed a breakpoint: a permanent
\* one calls historyInit()
pushedHistory(D, fTempBreak) == IF fTempBreak THEN D ELSE historyInit(D)

\* The history after the temporary breakpoints of the exec list have been
\* removed: every removal has called historyInit()
clearedTemp(D, aBreak) ==
    IF aBreak # D.exec THEN historyInit([D EXCEPT !.exec = aBreak]) ELSE D

-----------------------------------------------------------------------------
(* The breakpoint engine *)

mapBreakpointMask(addr, mask) ==
    IF BitAnd(addr, mask) = mask THEN BitAnd(addr, 1048575) ELSE addr

mapBreakpoint(addr) ==
    IF addr # ADDR_INVALID THEN mapBreakpointMask(addr, ClearLow16(maskAddr)) ELSE addr

\* bus.addMemBreak(addr, fWrite): the trap is registered once more
addMemBreak(aTraps, addr, fWrite) ==
    [t \in DOMAIN aTraps \cup {<<addr, fWrite>>} |->
        IF t \in DOMAIN aTraps THEN aTraps[t] + (IF t = <<addr, fWrite>> THEN 1 ELSE 0)
        ELSE 1]

\* bus.removeMemBreak(addr, fWrite): a registered trap is registered once
\* less; a trap that is not registered is not there to remove
removeMemBreak(aTraps, addr, fWrite) ==
    [t \in {u \in DOMAIN aTraps : u # <<addr, fWrite>> \/ aTraps[u] > 1} |->
        IF t = <<addr, fWrite>> THEN aTraps[t] - 1 ELSE aTraps[t]]

\* The removal of findBreakpoint() from a read or write list: the trap at
\* addr, the mapped address of the DbgAddr looked for, is unregistered
removedTrap(D, which, addr) ==
    [D EXCEPT !.busMemBreaks = removeMemBreak(@, addr, which = "write")]

\* The debugger after findBreakpoint() has returned f for the list which: a
\* removal has called bus.removeMemBreak() and historyInit()
removedBreak(D, which, f) ==
    IF f.fFound /\ which # "exec"
    THEN removedTrap(removedHistory(D, which, f), which,
                     mapBreakpoint(getAddr(f.dbgAddr, 1, D.nSuppressBreaks).addr))
    ELSE removedHistory(D, which, f)

\* The test without its "addr != X86.ADDR_INVALID": two addresses that do not
\* resolve match
matchBreakpointNoGuard(addr, addrBreak, dbgAddr, dbgAddrBreak) ==
    \/ addr = addrBreak
    \/ addr = ADDR_INVALID /\ dbgAddr.sel = dbgAddrBreak.sel
                           /\ dbgAddr.off = dbgAddrBreak.off

\* The test of findBreakpoint() on one stored breakpoint: addr is the mapped
\* linear address of dbgAddr, addrBreak that of the stored dbgAddrBreak
matchBreakpoint(addr, addrBreak, dbgAddr, dbgAddrBreak) ==
    \/ addr # ADDR_INVALID /\ addr = addrBreak
    \/ addr = ADDR_INVALID /\ dbgAddr.sel = dbgAddrBreak.sel
                           /\ dbgAddr.off = dbgAddrBreak.off

\* The loop of findBreakpoint() from the breakpoint i on; g is what getAddr()
\* returned for the breakpoint i
RECURSIVE findFrom(_, _, _, _, _, _, _)
findAt(aBreak, i, addr, dbgAddr, fRemove, fTempBreak, nSuppress, g) ==
    IF /\ matchBreakpoint(addr, mapBreakpoint(g.addr), dbgAddr, aBreak[i])
       /\ (~fTempBreak \/ aBreak[i].fTempBreak)
    THEN [fFound |-> TRUE,
          aBreak |-> IF fRemove THEN Splice([aBreak EXCEPT ![i] = g.dbgAddr], i)
                     ELSE [aBreak EXCEPT ![i] = g.dbgAddr],
          dbgAddr |-> dbgAddr, i |-> i]
    ELSE findFrom([aBreak EXCEPT ![i] = g.dbgAddr], i + 1, addr, dbgAddr, fRemove,
                  fTempBreak, nSuppress)

findFrom(aBreak, i, addr, dbgAddr, fRemove, fTempBreak, nSuppress) ==
    IF i > Len(aBreak)
    THEN [fFound |-> FALSE, aBreak |-> aBreak, dbgAddr |-> dbgAddr, i |-> 0]
    ELSE findAt(aBreak, i, addr, dbgAddr, fRemove, fTempBreak, nSuppress,
                IF addr # ADDR_INVALID THEN getAddr(aBreak[i], 1, nSuppress)
                ELSE [addr |-> ADDR_INVALID, dbgAddr |-> aBreak[i]])

\* findBreakpoint() returns [fFound, aBreak, dbgAddr, i]: the array and the
\* DbgAddr as the call leaves them, and the index of the breakpoint found
findMapped(aBreak, g, fRemove, fTempBreak, nSuppress) ==
    findFrom(aBreak, 1, mapBreakpoint(g.addr), g.dbgAddr, fRemove, fTempBreak,
             nSuppress)

findBreakpoint(aBreak, dbgAddr, fRemove, fTempBreak, nSuppress) ==
    findMapped(aBreak, getAddr(dbgAddr, 1, nSuppress), fRemove, fTempBreak, nSuppress)

\* addBreakpoint() returns [D, fSuccess]; f is what its findBreakpoint()
\* returned, g what getAddr() returned for a read or write breakpoint
tempBreak(dbgAddr) ==
    [dbgAddr EXCEPT !.sel = IF dbgAddr.addr # Null THEN Null ELSE @,
                    !.fTempBreak = TRUE]

pushBreak(D, which, aBreak, dbgAddr, fTempBreak) ==
    pushedHistory(SetList(D, which,
                          Append(aBreak, IF fTempBreak THEN tempBreak(dbgAddr)
                                         ELSE dbgAddr)),
                  fTempBreak)

addResolved(D, which, aBreak, g, fTempBreak) ==
    IF g.addr = ADDR_INVALID
    THEN [D |-> SetList(D, which, aBreak), fSuccess |-> FALSE]
    ELSE [D |-> pushBreak([D EXCEPT !.busMemBreaks =
                                        addMemBreak(@, g.addr, which = "write")],
                          which, aBreak, [g.dbgAddr EXCEPT !.sel = Null], fTempBreak),
          fSuccess |-> TRUE]

addFound(D, which, f, fTempBreak) ==
    IF which = "exec"
    THEN [D |-> pushBreak(removedHistory(D, which, f), which, f.aBreak, f.dbgAddr,
                          fTempBreak),
          fSuccess |-> TRUE]
    ELSE addResolved(removedBreak(D, which, f), which, f.aBreak,
                     getAddr(f.dbgAddr, 1, D.nSuppressBreaks), fTempBreak)

addBreakpoint(D, which, dbgAddr, fTempBreak) ==
    addFound(D, which,
             IF ~fTempBreak
             THEN findBreakpoint(List(D, which), dbgAddr, TRUE, FALSE,
                                 D.nSuppressBreaks)
             ELSE [fFound |-> FALSE, aBreak |-> List(D, which), dbgAddr |-> dbgAddr,
                   i |-> 0],
             fTempBreak)

\* The loops of clearBreakpoints(): the trap of every breakpoint of the list
\* from the breakpoint i on is unregistered at getAddr() of the breakpoint
RECURSIVE clearedTraps(_, _, _, _, _)
clearedTraps(aTraps, aBreak, i, fWrite, nSuppress) ==
    IF i > Len(aBreak) THEN aTraps
    ELSE clearedTraps(removeMemBreak(aTraps, getAddr(aBreak[i], 1, nSuppress).addr,
                                     fWrite),
                      aBreak, i + 1, fWrite, nSuppress)

clearBreakpoints(D) ==
    [D EXCEPT !.exec = <<>>, !.read = <<>>, !.write = <<>>,
              !.busMemBreaks =
                  clearedTraps(clearedTraps(@, D.read, 1, FALSE, D.nSuppressBreaks),
                               D.write, 1, TRUE, D.nSuppressBreaks),
              !.nSuppressBreaks = 0, !.cleared = TRUE]

\* The loop of clearTempBreakpoint() without an address: every temporary
\* breakpoint is removed by findBreakpoint(); the loop ends if one is not found
RECURSIVE clearAllTemp(_, _)
firstTemp(aBreak) ==
    CHOOSE k \in 1..Len(aBreak) :
        /\ aBreak[k].fTempBreak
        /\ \A m \in 1..(k - 1) : ~aBreak[m].fTempBreak

clearTempFound(f, nSuppress) ==
    IF ~f.fFound THEN f.aBreak ELSE clearAllTemp(f.aBreak, nSuppress)

clearAllTemp(aBreak, nSuppress) ==
    IF \E i \in 1..Len(aBreak) : aBreak[i].fTempBreak
    THEN clearTempFound(findBreakpoint(aBreak, aBreak[firstTemp(aBreak)], TRUE, TRUE,
                                       nSuppress), nSuppress)
    ELSE aBreak

\* The commands a breakpoint may carry
IsIf(sCmd) == sCmd \in {"if 1", "if 0"}

IsElse(sCmd) == sCmd = "else"

\* doIf(): the expression of the command is non-zero
doIf(sCmd) == sCmd = "if 1"

RECURSIVE checkBreakpoint(_, _, _, _, _, _)
RECURSIVE scanBreaks(_)
RECURSIVE hitBreak(_, _)
RECURSIVE runCmds(_, _, _, _)
RECURSIVE doCommand(_, _, _)
RECURSIVE doHalt(_, _)
RECURSIVE stopCPU(_, _)
RECURSIVE stop(_, _)
RECURSIVE clearTempBreakpoint(_, _, _)

\* doHalt(): "h"
doHalt(D, lip) == IF D.fRunning THEN stopCPU(D, lip) ELSE D

\* this.stopCPU(): cpu.stopCPU() stops a running CPU, and the Computer then
\* notifies the debugger's stop(); lip is cpu.regLIP
stopCPU(D, lip) ==
    IF D.cpuRunning THEN stop([D EXCEPT !.cpuRunning = FALSE], lip) ELSE D

stop(D, lip) ==
    IF D.fRunning THEN clearTempBreakpoint([D EXCEPT !.fRunning = FALSE], lip, lip)
    ELSE D

\* clearTempBreakpoint(addr); addr is Null when the call gives none
clearTempBreakpoint(D, addr, lip) ==
    IF addr # Null
    THEN [checkBreakpoint(D, addr, 1, "exec", TRUE, lip).D EXCEPT !.nStep = 0]
    ELSE clearedTemp(D, clearAllTemp(D.exec, D.nSuppressBreaks))

\* doCommand(sCmd, true) returns [D, result]
doCommand(D, sCmd, lip) ==
    CASE sCmd = "h"       -> [D |-> doHalt(D, lip), result |-> TRUE]
      [] IsIf(sCmd)       -> [D |-> D, result |-> doIf(sCmd)]
      [] IsElse(sCmd)     -> [D |-> D, result |-> TRUE]
      [] sCmd = "bc *"    -> [D |-> clearBreakpoints(D), result |-> TRUE]
      [] sCmd = "print 1" -> [D |-> D, result |-> TRUE]
      [] OTHER            -> [D |-> D, result |-> FALSE]

\* Where the loop over the commands a goes after the command a[j], whose
\* doCommand() returned r: [D, fBreak, j], fBreak when the sequence is aborted
afterCmd(a, j, r) ==
    IF r.result THEN [D |-> r.D, fBreak |-> FALSE, j |-> j + 1]
    ELSE IF ~IsIf(a[j]) THEN [D |-> r.D, fBreak |-> TRUE, j |-> 0]
    ELSE IF \E k \in (j + 1)..Len(a) : IsElse(a[k])
    THEN [D |-> r.D, fBreak |-> FALSE,
          j |-> CHOOSE x \in (j + 1)..Len(a) :
                    /\ IsElse(a[x])
                    /\ \A y \in (j + 1)..(x - 1) : ~IsElse(a[y])]
    ELSE [D |-> r.D, fBreak |-> TRUE, j |-> 0]

nextCmd(n, bp, lip) ==
    IF n.fBreak THEN [D |-> n.D, fBreak |-> TRUE] ELSE runCmds(n.D, bp, n.j, lip)

\* The loop over the commands a[j..] of the breakpoint bp: [D, fBreak], fBreak
\* when the sequence was aborted
runCmds(D, bp, j, lip) ==
    IF j > Len(bp.aCmds) THEN [D |-> D, fBreak |-> FALSE]
    ELSE nextCmd(afterCmd(bp.aCmds, j,
                          doCommand(Log(D, Ev("cmd", j, FALSE, bp.aCmds[j], bp)),
                                    bp.aCmds[j], lip)),
                 bp, lip)

\* The local variables of checkBreakpoint()'s loop: L.arr is the array aBreak
\* refers to, L.live whether it still is the debugger's array
PutArr(L, arr) ==
    [L EXCEPT !.arr = arr,
              !.D = IF L.live THEN SetList(L.D, L.which, arr) ELSE L.D]

\* A temporary breakpoint that is hit removes itself; f is what findBreakpoint()
\* returned
removedTemp(L, f) ==
    [PutArr(L, f.aBreak) EXCEPT
        !.fTempBreak = TRUE,
        !.D = IF f.fFound
              THEN historyInit(Log(@, Ev("remove", f.i, TRUE, L.which, L.arr[f.i])))
              ELSE @]

removeTempBreak(L, dbgAddrBreak) ==
    IF dbgAddrBreak.fTempBreak
    THEN removedTemp(L, findBreakpoint(L.arr, dbgAddrBreak, TRUE, TRUE,
                                       L.D.nSuppressBreaks))
    ELSE L

\* fBreak without the "fBreak = false" that precedes the commands
breakAfterCmdsAlways(fAborted, fCpuRunning) == TRUE

\* fBreak without the "fBreak = true" of an aborted sequence
breakAfterCmdsNoAbort(fAborted, fCpuRunning) == ~fCpuRunning

\* fBreak after the commands of a breakpoint have run
breakAfterCmds(fAborted, fCpuRunning) == fAborted \/ ~fCpuRunning

\* The body of "if (addr + n == addrBreak)" for the breakpoint dbgAddrBreak:
\* the removal of a temporary breakpoint, then its commands (rc is what their
\* loop returned), then fBreak
reportHit(L, dbgAddrBreak, fBreak) ==
    [L EXCEPT !.fBreak = fBreak,
              !.D = Log(@, Ev("hit", L.i, fBreak, L.which, dbgAddrBreak))]

afterCmds(L, rc, dbgAddrBreak) ==
    reportHit([L EXCEPT !.D = Log([rc.D EXCEPT !.cleared = L.D.cleared \/ @],
                                  Ev("done", IF rc.fBreak THEN 1 ELSE 0,
                                     rc.D.cpuRunning, L.which, dbgAddrBreak)),
                        !.live = L.live /\ ~rc.D.cleared,
                        !.arr = IF L.live /\ ~rc.D.cleared THEN List(rc.D, L.which)
                                ELSE @],
              dbgAddrBreak, breakAfterCmds(rc.fBreak, rc.D.cpuRunning))

runBreakCmds(L, dbgAddrBreak) ==
    IF dbgAddrBreak.fCmds
    THEN afterCmds(L, runCmds([L.D EXCEPT !.cleared = FALSE], dbgAddrBreak, 1, L.lip),
                   dbgAddrBreak)
    ELSE reportHit(L, dbgAddrBreak, TRUE)

hitBreak(L, dbgAddrBreak) ==
    runBreakCmds(removeTempBreak([L EXCEPT !.D = Log(@, Ev("match", L.i,
                                                          dbgAddrBreak.fTempBreak,
                                                          L.which, dbgAddrBreak))],
                                 dbgAddrBreak),
                 dbgAddrBreak)

\* The loop of checkBreakpoint() over aBreak from the breakpoint L.i on; g is
\* what getAddr() returned for the breakpoint L.i
zapAddr(bp) == IF bp.sel # Null THEN [bp EXCEPT !.addr = Null] ELSE bp

scanAt(L, g) ==
    IF \E n \in 0..(L.nb - 1) : L.addr + n = mapBreakpoint(g.addr)
    THEN hitBreak(PutArr(L, [L.arr EXCEPT ![L.i] = g.dbgAddr]), g.dbgAddr)
    ELSE PutArr(L, [L.arr EXCEPT ![L.i] = g.dbgAddr])

nextBreak(L) == scanBreaks([L EXCEPT !.i = @ + 1])

scanBreaks(L) ==
    IF L.fBreak \/ L.i > Len(L.arr) THEN L
    ELSE nextBreak(IF L.fTempBreak /\ ~L.arr[L.i].fTempBreak THEN L
                   ELSE scanAt(L, getAddr(zapAddr(L.arr[L.i]), 1,
                                          L.D.nSuppressBreaks)))

\* The body of checkBreakpoint(), run when no other check is in progress;
\* addr is the mapped address, fInt3 whether an INT3 at addr stops the CPU
scanList(D, addr, nb, which, fTempBreak, lip, fInt3) ==
    scanBreaks([D |-> Log(D, Ev("scan", 0, fInt3, which, NoAddr)),
                arr |-> List(D, which), live |-> TRUE, which |-> which,
                i |-> 1, fBreak |-> fInt3, fTempBreak |-> fTempBreak,
                addr |-> addr, nb |-> nb, lip |-> lip])

scanResult(L) == [D |-> L.D, fBreak |-> L.fBreak]

checkBody(D, addr, nb, which, fTempBreak, lip) ==
    scanResult(scanList(D, mapBreakpoint(addr), nb, which, fTempBreak, lip,
                        /\ messageEnabledIntHalt(D)
                        /\ probeAddr(mapBreakpoint(addr)) = OPCODE_INT3))

\* The check without its guard
mayCheckAlways(nSuppress) == TRUE

\* "if (!this.nSuppressBreaks++)"
mayCheck(nSuppress) == nSuppress = 0

\* checkBreakpoint() returns [D, fBreak]
enterCheck(D, which, fTempBreak) ==
    Log([D EXCEPT !.nSuppressBreaks = @ + 1],
        Ev("call", D.nSuppressBreaks, fTempBreak, which, NoAddr))

exitCheck(r, which) ==
    [D |-> Log([r.D EXCEPT !.nSuppressBreaks = @ - 1],
               Ev("exit", r.D.nSuppressBreaks - 1, r.fBreak, which, NoAddr)),
     fBreak |-> r.fBreak]

checkBreakpoint(D, addr, nb, which, fTempBreak, lip) ==
    exitCheck(IF mayCheck(D.nSuppressBreaks)
              THEN checkBody(enterCheck(D, which, fTempBreak), addr, nb, which,
                             fTempBreak, lip)
              ELSE [D |-> enterCheck(D, which, fTempBreak), fBreak |-> FALSE],
              which)

-----------------------------------------------------------------------------
(* Addresses as the commands give them *)

\* "%addr", "sel:off", "&sel:off" and "#sel:off"
LinQuery(addr) == [kind |-> "lin", sel |-> Null, off |-> 0, addr |-> addr]

SegQuery(kind, sel, off) == [kind |-> kind, sel |-> sel, off |-> off, addr |-> Null]

NoQuery == [kind |-> "none", sel |-> Null, off |-> 0, addr |-> Null]

\* parseAddr() of such an address: [ok, dbgAddr]
addrType(kind) ==
    CASE kind = "real" -> ADDR_REAL
      [] kind = "prot" -> ADDR_PROT
      [] kind = "lin"  -> ADDR_LINEAR
      [] OTHER         -> 0

parseAddrChecked(dbgAddr, fNoChecks, nSuppress) ==
    IF fNoChecks THEN [ok |-> TRUE, dbgAddr |-> dbgAddr]
    ELSE checkLimit(dbgAddr, TRUE, nSuppress)

parseAddr(q, fNoChecks, nSuppress) ==
    parseAddrChecked(newAddr(q.off, q.sel, q.addr, addrType(q.kind)), fNoChecks,
                     nSuppress)

\* The quoted command string of a "bp" or "g" command, split by parseCommand();
\* fCmds is FALSE when the command has no quoted string
NoCmds == [fCmds |-> FALSE, aCmds |-> <<>>]

Cmds(a) == [fCmds |-> TRUE, aCmds |-> a]

parseAddrOptions(dbgAddr, opt) ==
    IF opt.fCmds THEN [dbgAddr EXCEPT !.fCmds = TRUE, !.aCmds = opt.aCmds] ELSE dbgAddr

-----------------------------------------------------------------------------
(* The handlers *)

\* What the last handler was given and what it did: rt counts the steps of an
\* add / remove round trip on the address q of a list that held none at q
Last(op, which, q, addr, ret, found0, rt, pre, log) ==
    [op |-> op, which |-> which, q |-> q, addr |-> addr, ret |-> ret,
     found0 |-> found0, rt |-> rt, pre |-> pre, log |-> log]

NoLast == Last("init", "", NoQuery, Null, FALSE, FALSE, 0, <<>>, <<>>)

\* The debugger's fields after a handler
Commit(D) ==
    /\ aBreakExec' = D.exec
    /\ aBreakRead' = D.read
    /\ aBreakWrite' = D.write
    /\ nSuppressBreaks' = D.nSuppressBreaks
    /\ cpuRunning' = D.cpuRunning
    /\ fRunning' = D.fRunning
    /\ nStep' = D.nStep
    /\ busMemBreaks' = D.busMemBreaks
    /\ bitsMessage' = D.bitsMessage
    /\ aOpcodeHistory' = D.aOpcodeHistory
    /\ iOpcodeHistory' = D.iOpcodeHistory
    /\ aaOpcodeCounts' = D.aaOpcodeCounts

Init ==
    /\ cpuMode = "reset"
    /\ descLoaded = FALSE
    /\ maskAddr = BusLimit24
    /\ aBreakExec = <<>>
    /\ aBreakRead = <<>>
    /\ aBreakWrite = <<>>
    /\ nSuppressBreaks = 0
    /\ cpuRunning = FALSE
    /\ fRunning = FALSE
    /\ nStep = 0
    /\ busMemBreaks = <<>>
    /\ aSymbolTable = <<>>
    /\ bitsMessage = {}
    /\ dbgAddrNextData = newAddr(0, 0, Null, ADDR_REAL)
    /\ aVariables = <<>>
    /\ regEAX = 0
    /\ model = MODEL_80286
    /\ sInput = <<>>
    /\ DEBUG = FALSE
    /\ aOpcodeHistory = <<>>
    /\ iOpcodeHistory = 0
    /\ aaOpcodeCounts = <<>>
    /\ traceEnabled = {}
    /\ iTraceBuffer = 0
    /\ aTraceBuffer = <<>>
    /\ NoDisassembly
    /\ last = NoLast

\* "bp", "br" or "bw" with an address and an optional command string; a list
\* takes at most max breakpoints
DoBreakSet(which, q, opt, max) ==
    /\ Len(List(Dbg, which)) < max
    /\ \E dbgAddr \in {parseAddrOptions(parseAddr(q, TRUE, nSuppressBreaks).dbgAddr,
                                        opt)} :
       \E f \in {findBreakpoint(List(Dbg, which), dbgAddr, FALSE, FALSE,
                                nSuppressBreaks)} :
       \E r \in {addBreakpoint(Dbg, which, dbgAddr, FALSE)} :
           /\ Commit(r.D)
           /\ last' = Last("add", which, q, Null, r.fSuccess, f.fFound,
                           IF r.fSuccess /\ ~f.fFound THEN 1 ELSE 0, <<>>, <<>>)
    /\ UNCHANGED evalVars
    /\ UNCHANGED <<traceVars, insVars, aSymbolTable>>
    /\ UNCHANGED <<cpuMode, descLoaded, maskAddr, dbgAddrNextData>>

\* The list a "bc" with an address removes a breakpoint from: the first of the
\* three that holds it
clearedList(fe, fr, fw) ==
    IF fe.fFound THEN "exec" ELSE IF fr.fFound THEN "read"
    ELSE IF fw.fFound THEN "write" ELSE ""

\* "bc" with an address
DoBreakClear(q) ==
    /\ \E p \in {parseAddr(q, TRUE, nSuppressBreaks)} :
       \E fe \in {findBreakpoint(aBreakExec, p.dbgAddr, TRUE, FALSE, nSuppressBreaks)} :
       \E fr \in {findBreakpoint(aBreakRead, fe.dbgAddr, TRUE, FALSE, nSuppressBreaks)} :
       \E fw \in {findBreakpoint(aBreakWrite, fr.dbgAddr, TRUE, FALSE, nSuppressBreaks)} :
       \E which \in {clearedList(fe, fr, fw)} :
       \E H \in {IF which # "" THEN historyInit([Dbg EXCEPT !.exec = fe.aBreak])
                 ELSE Dbg} :
           /\ aOpcodeHistory' = H.aOpcodeHistory
           /\ iOpcodeHistory' = H.iOpcodeHistory
           /\ aaOpcodeCounts' = H.aaOpcodeCounts
           /\ aBreakExec' = fe.aBreak
           /\ busMemBreaks' =
                  IF fe.fFound THEN busMemBreaks
                  ELSE IF fr.fFound
                  THEN removedBreak(Dbg, "read", fr).busMemBreaks
                  ELSE removedBreak(Dbg, "write", fw).busMemBreaks
           /\ aBreakRead' = IF fe.fFound THEN aBreakRead ELSE fr.aBreak
           /\ aBreakWrite' = IF fe.fFound \/ fr.fFound THEN aBreakWrite ELSE fw.aBreak
           /\ last' = Last("clear", which, q, Null, which # "", FALSE,
                           IF last.rt = 1 /\ last.q = q /\ last.which = which THEN 2 ELSE 0,
                           <<aBreakExec, aBreakRead, aBreakWrite>>, <<>>)
    /\ UNCHANGED evalVars
    /\ UNCHANGED <<traceVars, insVars, aSymbolTable>>
    /\ UNCHANGED <<cpuMode, descLoaded, maskAddr, nSuppressBreaks, cpuRunning,
                   fRunning, nStep, bitsMessage, dbgAddrNextData>>

\* "bc *"
DoBreakClearAll ==
    /\ Len(aBreakExec) + Len(aBreakRead) + Len(aBreakWrite) > 0 \/ nSuppressBreaks # 0
    /\ Commit(clearBreakpoints(Dbg))
    /\ last' = Last("clearall", "", NoQuery, Null, TRUE, FALSE, 0, <<>>, <<>>)
    /\ UNCHANGED evalVars
    /\ UNCHANGED <<traceVars, insVars, aSymbolTable>>
    /\ UNCHANGED <<cpuMode, descLoaded, maskAddr, dbgAddrNextData>>

\* cpu.runCPU(): a CPU that is not running starts, and the Computer notifies
\* the debugger's start()
startCPU(D) ==
    IF D.cpuRunning THEN D ELSE [D EXCEPT !.cpuRunning = TRUE, !.fRunning = TRUE]

\* "g" with an optional address and command string; fAvail is isCPUAvail()
DoRun(q, opt, fAvail, max) ==
    /\ q # NoQuery => Len(aBreakExec) < max
    /\ q = NoQuery => opt = NoCmds
    /\ \E p \in {parseAddr(q, FALSE, nSuppressBreaks)} :
       \E D \in {IF q # NoQuery /\ p.ok
                 THEN addBreakpoint(Dbg, "exec", parseAddrOptions(p.dbgAddr, opt),
                                    TRUE).D
                 ELSE Dbg} :
           /\ Commit(IF (q = NoQuery \/ p.ok) /\ fAvail THEN startCPU(D) ELSE D)
           /\ last' = Last("run", "exec", q, Null, q = NoQuery \/ p.ok, FALSE, 0,
                           <<>>, <<>>)
    /\ UNCHANGED evalVars
    /\ UNCHANGED <<traceVars, insVars, aSymbolTable>>
    /\ UNCHANGED <<cpuMode, descLoaded, maskAddr, dbgAddrNextData>>

\* "h" at the prompt; lip is cpu.regLIP
DoHalt(lip) ==
    /\ \E D \in {doHalt(Dbg, lip)} :
           /\ Commit(D)
           /\ last' = Last("halt", "exec", NoQuery, lip, TRUE, FALSE, 0, <<>>, D.log)
    /\ UNCHANGED evalVars
    /\ UNCHANGED <<traceVars, insVars, aSymbolTable>>
    /\ UNCHANGED <<cpuMode, descLoaded, maskAddr, dbgAddrNextData>>

\* A check whose hit stops the CPU: [D, fBreak]
stopOnBreak(r, lip) ==
    [D |-> IF r.fBreak THEN stopCPU(r.D, lip) ELSE r.D, fBreak |-> r.fBreak]

\* The same with the history updated before the result of the breakpoint
\* check is looked at
checkedInstructionFirst(r, addr) ==
    [D |-> countOpcode(r.D, addr), fBreak |-> r.fBreak]

\* What checkInstruction() does after its checkBreakpoint() has returned r
checkedInstruction(r, addr) ==
    IF r.fBreak THEN r ELSE [D |-> countOpcode(r.D, addr), fBreak |-> FALSE]

\* checkInstruction(addr, nState) returns [D, fBreak]: nState is 0 for a step
\* of the debugger and above 0 for the running CPU
checkInstruction(D, addr, nState) ==
    IF nState > 0
    THEN checkedInstruction(checkBreakpoint(D, addr, 1, "exec", FALSE, addr), addr)
    ELSE [D |-> countOpcode(D, addr), fBreak |-> FALSE]

\* The number of instructions the counts have counted: the sum of the counts
\* of the opcodes S
RECURSIVE sumCounts(_, _)
sumCounts(aaCounts, S) ==
    IF S = {} THEN 0
    ELSE aaCounts[CHOOSE b \in S : TRUE]
             + sumCounts(aaCounts, S \ {CHOOSE b \in S : TRUE})

cOpcodesCounted(aaCounts) ==
    sumCounts(aaCounts, {b \in 1..Len(aaCounts) : aaCounts[b] > 0})

\* The running CPU is about to execute the instruction at addr: a hit stops
\* it; the counts count at most max instructions
CheckInstruction(addr, max) ==
    /\ cpuRunning
    /\ \E r \in {stopOnBreak(checkInstruction(Dbg, addr, 1), addr)} :
           /\ cOpcodesCounted(r.D.aaOpcodeCounts) <= max
           /\ Commit(r.D)
           /\ last' = Last("check", "exec", NoQuery, addr, r.fBreak, FALSE, 0,
                           <<aBreakExec>>, r.D.log)
    /\ UNCHANGED evalVars
    /\ UNCHANGED <<traceVars, insVars, aSymbolTable>>
    /\ UNCHANGED <<cpuMode, descLoaded, maskAddr, dbgAddrNextData>>

\* checkMemoryRead() and checkMemoryWrite(): the running CPU accesses nb bytes
\* at addr, whose instruction is at lip
CheckMemory(which, addr, nb, lip) ==
    /\ cpuRunning
    /\ \E r \in {stopOnBreak(checkBreakpoint(Dbg, addr, nb, which, FALSE, lip),
                             lip)} :
           /\ Commit(r.D)
           /\ last' = Last("check", which, NoQuery, addr, r.fBreak, FALSE, 0,
                           <<List(Dbg, which)>>, r.D.log)
    /\ UNCHANGED evalVars
    /\ UNCHANGED <<traceVars, insVars, aSymbolTable>>
    /\ UNCHANGED <<cpuMode, descLoaded, maskAddr, dbgAddrNextData>>

\* reset(): the Computer has reset the machine
reset(D) == clearTempBreakpoint([historyInit(D) EXCEPT !.fRunning = FALSE], Null, Null)

Reset ==
    /\ cpuMode' = "reset"
    /\ descLoaded' = FALSE
    /\ Commit(reset(Dbg))
    /\ last' = Last("reset", "exec", NoQuery, Null, TRUE, FALSE, 0, <<>>, <<>>)
    /\ UNCHANGED evalVars
    /\ UNCHANGED <<traceVars, insVars, aSymbolTable>>
    /\ UNCHANGED <<maskAddr, dbgAddrNextData>>

\* The program that the CPU runs changes the CPU's mode ...
SetMode(m) ==
    /\ m # cpuMode
    /\ cpuMode' = m
    /\ last' = Last("mode", "", NoQuery, Null, TRUE, FALSE, 0, <<>>, <<>>)
    /\ UNCHANGED evalVars
    /\ UNCHANGED <<histVars, traceVars, insVars, aSymbolTable>>
    /\ UNCHANGED <<descLoaded, maskAddr, aBreakExec, aBreakRead, aBreakWrite,
                   nSuppressBreaks, cpuRunning, fRunning, nStep, bitsMessage,
                   dbgAddrNextData, busMemBreaks>>

\* ... and loads or unloads the descriptor of selector SelData
SetDesc ==
    /\ descLoaded' = ~descLoaded
    /\ last' = Last("desc", "", NoQuery, Null, TRUE, FALSE, 0, <<>>, <<>>)
    /\ UNCHANGED evalVars
    /\ UNCHANGED <<histVars, traceVars, insVars, aSymbolTable>>
    /\ UNCHANGED <<cpuMode, maskAddr, aBreakExec, aBreakRead, aBreakWrite,
                   nSuppressBreaks, cpuRunning, fRunning, nStep, bitsMessage,
                   dbgAddrNextData, busMemBreaks>>

-----------------------------------------------------------------------------
(* The exec list under addresses of every form *)

MaxExec == 2

\* The history counts no instruction here: the CPU checks an instruction
\* that hits a breakpoint, or one without an allocated history
MaxCountedExec == 0

\* The address 16 bytes below the top of the first megabyte, where an 8086
\* starts, and the one 16 bytes below the top of the 24-bit address space
AddrTop20 == BusLimit20 - 15

AddrTop24 == BusLimit24 - 15

\* %0FFFF0, %FFFFF0, F000:FFF0 and #0018:0100
Queries ==
    {LinQuery(AddrTop20), LinQuery(AddrTop24), SegQuery("seg", SelRomCS, 65520),
     SegQuery("prot", SelData, 256)}

\* The addresses the CPU executes
Addrs == {AddrTop20, AddrTop24, BaseData + 256}

Next ==
    \/ \E q \in Queries : DoBreakSet("exec", q, NoCmds, MaxExec)
    \/ \E q \in Queries : DoBreakClear(q)
    \/ DoBreakClearAll
    \/ \E q \in Queries \cup {NoQuery}, fAvail \in BOOLEAN :
          DoRun(q, NoCmds, fAvail, MaxExec)
    \/ \E addr \in Addrs : CheckInstruction(addr, MaxCountedExec)
    \/ \E m \in {"real", "prot"} : SetMode(m)
    \/ SetDesc

Spec == Init /\ [][Next]_vars

-----------------------------------------------------------------------------
(* Temporary breakpoints at one address *)

MaxTemp == 3

\* The most instructions the counts of the history count
MaxCounted == 1

TempCmds == {NoCmds, Cmds(<<"print 1">>), Cmds(<<"h">>)}

NextTemp ==
    \/ \E opt \in TempCmds : DoBreakSet("exec", LinQuery(AddrTop20), opt, MaxTemp)
    \/ \E opt \in TempCmds, fAvail \in BOOLEAN :
          DoRun(LinQuery(AddrTop20), opt, fAvail, MaxTemp)
    \/ \E fAvail \in BOOLEAN : DoRun(NoQuery, NoCmds, fAvail, MaxTemp)
    \/ \E addr \in {AddrTop20, BaseData} : CheckInstruction(addr, MaxCounted)
    \/ \E lip \in {AddrTop20, BaseData} : DoHalt(lip)
    \/ Reset

SpecTemp == Init /\ [][NextTemp]_vars

-----------------------------------------------------------------------------
(* Breakpoints with commands *)

MaxCmdBreaks == 2

BreakCmds ==
    {NoCmds, Cmds(<<>>), Cmds(<<"print 1">>), Cmds(<<"h">>), Cmds(<<"if 0", "print 1">>),
     Cmds(<<"if 0", "print 1", "else", "h">>), Cmds(<<"if 1", "h">>),
     Cmds(<<"if 1", "print 1", "else", "h">>),
     Cmds(<<"zz", "h">>), Cmds(<<"print 1", "bc *", "h">>)}

NextCmds ==
    \/ \E q \in {LinQuery(AddrTop24), LinQuery(BaseData)}, opt \in BreakCmds :
          DoBreakSet("exec", q, opt, MaxCmdBreaks)
    \/ \E q \in {LinQuery(AddrTop24), LinQuery(BaseData)} : DoBreakClear(q)
    \/ DoBreakClearAll
    \/ \E fAvail \in BOOLEAN : DoRun(NoQuery, NoCmds, fAvail, MaxCmdBreaks)
    \/ \E addr \in {AddrTop20, BaseData} : CheckInstruction(addr, MaxCounted)
    \/ \E lip \in {AddrTop20, BaseData} : DoHalt(lip)

SpecCmds == Init /\ [][NextCmds]_vars

-----------------------------------------------------------------------------
(* The address model on addresses near the limit of their segment *)

MaxPast == 4

\* F000:FFF0, F000:FFFE, F000:FFFF, &0000:FFFF, #0018:0100, #0018:01FE,
\* #0018:01FF and %0FFFF0
AddrQueries ==
    {SegQuery("seg", SelRomCS, off) : off \in {65520, 65534, 65535}}
        \cup {SegQuery("real", 0, 65535)}
        \cup {SegQuery("prot", SelData, off) : off \in {256, 510, 511}}
        \cup {LinQuery(AddrTop20)}

InitAddr ==
    /\ maskAddr \in {BusLimit20, BusLimit24}
    /\ cpuMode \in {"reset", "real", "prot"}
    /\ descLoaded \in BOOLEAN
    /\ (cpuMode = "prot" \/ descLoaded) => maskAddr = BusLimit24
    /\ aBreakExec = <<>>
    /\ aBreakRead = <<>>
    /\ aBreakWrite = <<>>
    /\ nSuppressBreaks = 0
    /\ cpuRunning = FALSE
    /\ fRunning = FALSE
    /\ nStep = 0
    /\ busMemBreaks = <<>>
    /\ aSymbolTable = <<>>
    /\ bitsMessage = {}
    /\ dbgAddrNextData \in {parseAddr(q, TRUE, 0).dbgAddr : q \in AddrQueries}
    /\ aVariables = <<>>
    /\ regEAX = 0
    /\ model = MODEL_80286
    /\ sInput = <<>>
    /\ DEBUG = FALSE
    /\ aOpcodeHistory = <<>>
    /\ iOpcodeHistory = 0
    /\ aaOpcodeCounts = <<>>
    /\ traceEnabled = {}
    /\ iTraceBuffer = 0
    /\ aTraceBuffer = <<>>
    /\ NoDisassembly
    /\ last = NoLast

\* The cursor has not passed the end of a 64Kb segment, or of the first
\* megabyte, by more than MaxPast
CanStep(dbgAddr) ==
    IF dbgAddr.sel # Null THEN dbgAddr.off < OffMaxReal + MaxPast
    ELSE dbgAddr.addr <= BusLimit20 + MaxPast

\* The cursor and the record of an access: pre is the address the accessor was
\* given and the one it advanced, rt the increment it advanced it by, addr the
\* value it returned and ret whether the address resolved
Access(op, r, dbgAddrInc, inc, nb) ==
    LET addr == getAddr(dbgAddrNextData, nb, nSuppressBreaks).addr
    IN  /\ dbgAddrNextData' = r.dbgAddr
        /\ last' = Last(op, "", NoQuery, r.val, addr # ADDR_INVALID, FALSE, inc,
                        <<dbgAddrNextData, dbgAddrInc>>, <<>>)
        /\ UNCHANGED evalVars
        /\ UNCHANGED <<histVars, traceVars, insVars, aSymbolTable>>
        /\ UNCHANGED <<cpuMode, descLoaded, maskAddr, aBreakExec, aBreakRead,
                       aBreakWrite, nSuppressBreaks, cpuRunning, fRunning, nStep,
                       bitsMessage, busMemBreaks>>

\* The increment an accessor applies: none when the address does not resolve
IncOf(inc, nb) ==
    IF getAddr(dbgAddrNextData, nb, nSuppressBreaks).addr # ADDR_INVALID THEN inc ELSE 0

GetByte(inc) ==
    /\ CanStep(dbgAddrNextData)
    /\ Access("getByte", getByte(dbgAddrNextData, inc, nSuppressBreaks),
              getAddr(dbgAddrNextData, 1, nSuppressBreaks).dbgAddr, IncOf(inc, 1), 1)

GetShort(inc) ==
    /\ CanStep(dbgAddrNextData)
    /\ Access("getShort", getShort(dbgAddrNextData, inc, nSuppressBreaks),
              getAddr(dbgAddrNextData, 2, nSuppressBreaks).dbgAddr, IncOf(inc, 2), 2)

GetLong(inc) ==
    /\ CanStep(dbgAddrNextData)
    /\ Access("getLong", getLong(dbgAddrNextData, inc, nSuppressBreaks),
              getAddr(dbgAddrNextData, 4, nSuppressBreaks).dbgAddr, IncOf(inc, 4), 4)

IncAddr(inc) ==
    /\ CanStep(dbgAddrNextData)
    /\ Access("incAddr",
              [val |-> 0, dbgAddr |-> incAddr(dbgAddrNextData, inc, nSuppressBreaks)],
              dbgAddrNextData, IF inc = 0 THEN 1 ELSE inc, 1)

NextAddr ==
    \/ \E inc \in 0..1 : GetByte(inc)
    \/ \E inc \in {0, 2} : GetShort(inc)
    \/ \E inc \in {0, 4} : GetLong(inc)
    \/ \E inc \in 0..2 : IncAddr(inc)

SpecAddr == InitAddr /\ [][NextAddr]_vars

\* The segment of a segmented address, and whether the address has one
SegOf(dbgAddr) == getSegment(dbgAddr.sel, dbgAddr.type, nSuppressBreaks)

\* The last step advanced a segmented address past the limit of its segment
PastLimit ==
    /\ last.rt > 0
    /\ last.pre[2].sel # Null
    /\ ~SegOf(last.pre[2]).none
    /\ last.pre[2].off < SegOf(last.pre[2]).offMax
    /\ last.pre[2].off + last.rt >= SegOf(last.pre[2]).offMax

\* C9: an incAddr that moves the offset of a segmented address past the limit
\* of its segment leaves the address unresolved (addr is null)
C9_PastLimitUnresolved == PastLimit => dbgAddrNextData.addr = Null

\* C10: for an address that does not resolve, getByte returns 0xFF, getShort
\* 0xFFFF and getLong -1
C10_Sentinels ==
    ~last.ret =>
        /\ last.op = "getByte" => last.addr = 255
        /\ last.op = "getShort" => last.addr = 65535
        /\ last.op = "getLong" => last.addr = -1

C10_Witness ==
    /\ last.op \in {"getByte", "getShort", "getLong"}
    /\ ~last.ret
    /\ last.pre[1].sel # Null

-----------------------------------------------------------------------------
(* The claims about the lists *)

\* findBreakpoint(aBreakExec, A) for the address A of the command q, now
FindNow(q) ==
    findBreakpoint(aBreakExec, parseAddr(q, TRUE, nSuppressBreaks).dbgAddr, FALSE,
                   FALSE, nSuppressBreaks).fFound

\* C1: on an exec list that held no breakpoint at A, findBreakpoint(A) returns
\* true after addBreakpoint(A) has succeeded, and false after a
\* findBreakpoint(A, remove) that followed it has returned true
C1_RoundTrip ==
    /\ (last.op = "add" /\ last.which = "exec" /\ last.rt = 1) => FindNow(last.q)
    /\ (last.op = "clear" /\ last.which = "exec" /\ last.rt = 2) => ~FindNow(last.q)

C1_Witness ==
    /\ last.op = "clear"
    /\ last.which = "exec"
    /\ last.rt = 2
    /\ Len(aBreakExec) > 0

\* The address of two breakpoints is the same one: the same selector and offset
\* in the same mode, or the same linear address
SameAddress(bp1, bp2) ==
    /\ bp1.sel = bp2.sel
    /\ bp1.off = bp2.off
    /\ bp1.type = bp2.type
    /\ bp1.sel = Null => bp1.addr = bp2.addr

OnePermanent(aBreak) ==
    \A i, j \in 1..Len(aBreak) :
        (i < j /\ ~aBreak[i].fTempBreak /\ ~aBreak[j].fTempBreak)
            => ~SameAddress(aBreak[i], aBreak[j])

\* C6: each of the three lists holds at most one permanent breakpoint per
\* address
C6_OnePermanentPerAddress ==
    OnePermanent(aBreakExec) /\ OnePermanent(aBreakRead) /\ OnePermanent(aBreakWrite)

\* The rule of C7 for the address dbgAddr and a stored breakpoint
MatchRule(dbgAddr, dbgAddrBreak) ==
    LET addr == mapBreakpoint(getAddr(dbgAddr, 1, nSuppressBreaks).addr)
    IN  IF addr # ADDR_INVALID
        THEN mapBreakpoint(getAddr(dbgAddrBreak, 1, nSuppressBreaks).addr) = addr
        ELSE dbgAddr.sel = dbgAddrBreak.sel /\ dbgAddr.off = dbgAddrBreak.off

\* The last command was a "bc" of an address
Cleared == last.op = "clear"

ClearedAddr == parseAddr(last.q, TRUE, nSuppressBreaks).dbgAddr

\* C7: findBreakpoint finds a breakpoint exactly when a stored breakpoint has
\* the resolved linear address of the queried one or, when the queried address
\* does not resolve, its selector and offset
C7_MatchRule ==
    Cleared =>
        (last.ret <=> \E l \in 1..3 : \E i \in 1..Len(last.pre[l]) :
                          MatchRule(ClearedAddr, last.pre[l][i]))

C7_Witness ==
    /\ Cleared
    /\ last.ret
    /\ getAddr(ClearedAddr, 1, nSuppressBreaks).addr = ADDR_INVALID
    /\ Len(last.pre[1]) = MaxExec

\* The last step was a check of an instruction at the alias of the top of the
\* address space, with a breakpoint without commands set at the top
AliasChecked ==
    /\ last.op = "check"
    /\ last.which = "exec"
    /\ last.addr = AddrTop20
    /\ \E i \in 1..Len(last.pre[1]) :
          /\ last.pre[1][i].sel = Null
          /\ last.pre[1][i].addr = AddrTop24
          /\ ~last.pre[1][i].fTempBreak
          /\ ~last.pre[1][i].fCmds

\* C8: a breakpoint at the top of the address space minus 0x10 is reported as
\* hit when execution reaches 0x000FFFF0
C8_AliasHit == AliasChecked => last.ret

-----------------------------------------------------------------------------
(* The claims about checkBreakpoint(), on the log of the last handler *)

Steps == 1..Len(last.log)

Step(k) == last.log[k]

\* C2: a temporary breakpoint that checkBreakpoint matches is removed from its
\* list at once, before any of its commands runs: the step after its match is
\* the removal of that breakpoint
C2_TempRemovedFirst ==
    \A k \in Steps :
        (Step(k).e = "match" /\ Step(k).b)
            => /\ k < Len(last.log)
               /\ Step(k + 1).e = "remove"
               /\ Step(k + 1).bp = Step(k).bp

\* A command of the last handler has reset the counter (clearBreakpoints)
CounterReset == \E k \in Steps : Step(k).e = "cmd" /\ Step(k).c = "bc *"

\* C3: a checkBreakpoint call that finds the counter non-zero neither scans a
\* list nor runs a command: its exit is its next step, it returns false and
\* leaves the counter as it found it; every call has its exit, and the
\* decrements of a handler's calls undo their increments
C3_NestedCallSkips ==
    /\ \A k \in Steps :
          (Step(k).e = "call" /\ Step(k).n # 0)
              => /\ k < Len(last.log)
                 /\ Step(k + 1).e = "exit"
                 /\ ~Step(k + 1).b
                 /\ Step(k + 1).n = Step(k).n
    /\ Cardinality({k \in Steps : Step(k).e = "call"})
          = Cardinality({k \in Steps : Step(k).e = "exit"})
    /\ (Len(last.log) > 0 /\ ~CounterReset) => nSuppressBreaks = Step(1).n

C3_Witness ==
    \E k \in Steps : \E m \in 1..(k - 1) :
        /\ Step(k).e = "call"
        /\ Step(k).n = 1
        /\ Step(m).e = "cmd"

\* C4: a matching breakpoint with commands, all of which have run, is reported
\* as hit exactly when the CPU is not running after them
C4_HitIffHalted ==
    \A k \in Steps :
        (Step(k).e = "hit" /\ Step(k).bp.fCmds)
            => /\ k > 1
               /\ Step(k - 1).e = "done"
               /\ Step(k - 1).n = 0 => (Step(k).b <=> ~Step(k - 1).b)

C4_Witness ==
    \E k \in Steps :
        /\ Step(k).e = "hit"
        /\ Step(k).bp.aCmds = <<"print 1">>
        /\ ~Step(k).b
        /\ cpuRunning

\* No "else" follows the command j of the sequence a
NoElseAfter(a, j) == \A x \in (j + 1)..Len(a) : ~IsElse(a[x])

\* The step k is an "if" command that fails and has no "else" after it
FailedIf(k) ==
    /\ Step(k).e = "cmd"
    /\ IsIf(Step(k).c)
    /\ ~doIf(Step(k).c)
    /\ NoElseAfter(Step(k).bp.aCmds, Step(k).n)

\* C5: after an `if` command that fails and has no `else` after it no further
\* command of the sequence runs, and checkBreakpoint reports a hit
C5_FailedIfAborts ==
    \A k \in Steps :
        FailedIf(k)
            => /\ k + 3 <= Len(last.log)
               /\ Step(k + 1).e = "done"
               /\ Step(k + 2).e = "hit" /\ Step(k + 2).b
               /\ Step(k + 3).e = "exit" /\ Step(k + 3).b
               /\ last.ret

C5_Witness ==
    \E k \in Steps :
        /\ FailedIf(k)
        /\ Step(k).n < Len(Step(k).bp.aCmds)
        /\ last.op = "check"
        /\ ~cpuRunning

-----------------------------------------------------------------------------
(* Signed 32-bit values: what JavaScript's |0 and its bitwise operators     *)
(* make of a number                                                        *)

MaxInt32 == 2147483647

MinInt32 == -2147483647 - 1

\* The two 16-bit halves of a signed 32-bit value, and the value of two halves
hi16(v) == (v \div 65536) % 65536

lo16(v) == v % 65536

toInt32(hi, lo) == (IF hi >= 32768 THEN hi - 65536 ELSE hi) * 65536 + lo

\* (val1 + val2)|0 and (val1 - val2)|0
add32(val1, val2) ==
    toInt32((hi16(val1) + hi16(val2) + ((lo16(val1) + lo16(val2)) \div 65536)) % 65536,
            (lo16(val1) + lo16(val2)) % 65536)

sub32(val1, val2) ==
    toInt32((hi16(val1) - hi16(val2) + ((lo16(val1) - lo16(val2)) \div 65536)) % 65536,
            (lo16(val1) - lo16(val2)) % 65536)

\* One bit of &, | and ^
bitOf(chOp, x, y) ==
    CASE chOp = "&" -> x * y
      [] chOp = "|" -> IF x + y > 0 THEN 1 ELSE 0
      [] OTHER      -> (x + y) % 2

RECURSIVE bitsOf(_, _, _, _)
bitsOf(chOp, a, b, n) ==
    IF n = 0 THEN 0
    ELSE bitOf(chOp, a % 2, b % 2) + 2 * bitsOf(chOp, a \div 2, b \div 2, n - 1)

\* val1 & val2, val1 | val2 and val1 ^ val2
bitwise32(chOp, val1, val2) ==
    toInt32(bitsOf(chOp, hi16(val1), hi16(val2), 16),
            bitsOf(chOp, lo16(val1), lo16(val2), 16))

\* val1 << n, val1 >> n and (val1 >>> n)|0 for a count n of 0..31 (a shift
\* takes the low five bits of its count)
shl32(val1, n) ==
    IF n < 16
    THEN toInt32((hi16(val1) * (2 ^ n) + ((lo16(val1) * (2 ^ n)) \div 65536)) % 65536,
                 (lo16(val1) * (2 ^ n)) % 65536)
    ELSE toInt32((lo16(val1) * (2 ^ (n - 16))) % 65536, 0)

sar32(val1, n) ==
    IF n < 31 THEN val1 \div (2 ^ n)
    ELSE IF val1 < 0 THEN -1 ELSE 0

shr32(val1, n) ==
    IF n = 0 THEN val1
    ELSE IF val1 >= 0 THEN sar32(val1, n)
    ELSE sar32(((val1 - MinInt32) \div 2) + 1073741824, n - 1)

\* The magnitude of a signed 32-bit value in three digits of 11 bits, lowest
\* first
digits11(v) ==
    IF v = MinInt32 THEN <<0, 0, 512>>
    ELSE IF v < 0 THEN <<(-v) % 2048, ((-v) \div 2048) % 2048, (-v) \div 4194304>>
    ELSE <<v % 2048, (v \div 2048) % 2048, v \div 4194304>>

\* The product of two magnitudes, digit by digit without the carries
rawProduct(a, b) ==
    <<a[1] * b[1],
      a[1] * b[2] + a[2] * b[1],
      a[1] * b[3] + a[2] * b[2] + a[3] * b[1],
      a[2] * b[3] + a[3] * b[2],
      a[3] * b[3],
      0>>

\* The digits of base 2048 of a number given by digits that exceed the base
RECURSIVE carried(_, _, _)
carried(c, i, carry) ==
    IF i > Len(c) THEN <<>>
    ELSE <<(c[i] + carry) % 2048>> \o carried(c, i + 1, (c[i] + carry) \div 2048)

RECURSIVE bitLen(_)
bitLen(n) == IF n = 0 THEN 0 ELSE 1 + bitLen(n \div 2)

\* The number of bits of a number of six digits
RECURSIVE bitLenFrom(_, _)
bitLenFrom(d, i) ==
    IF i = 0 THEN 0
    ELSE IF d[i] # 0 THEN 11 * (i - 1) + bitLen(d[i])
    ELSE bitLenFrom(d, i - 1)

\* A double holds 53 bits: the number of low bits a product loses
lostBits(d) == IF bitLenFrom(d, 6) > 53 THEN bitLenFrom(d, 6) - 53 ELSE 0

\* The lowest digit of the product as a double holds it: the k lost bits are
\* rounded to the nearest, and halfway to even (the result may reach 2048 and
\* carry)
roundedLow(d0, k) ==
    IF k = 0 THEN d0
    ELSE IF d0 % (2 ^ k) > 2 ^ (k - 1)
            \/ (d0 % (2 ^ k) = 2 ^ (k - 1) /\ (d0 \div (2 ^ k)) % 2 = 1)
         THEN d0 - (d0 % (2 ^ k)) + 2 ^ k
         ELSE d0 - (d0 % (2 ^ k))

\* The low 32 bits of a magnitude whose lowest digit is d0: [hi, lo]
low32(d, d0) ==
    [hi |-> (((d0 + d[2] * 2048) \div 65536) + d[3] * 64) % 65536,
     lo |-> (d0 + d[2] * 2048) % 65536]

\* The signed 32-bit value of a magnitude's low 32 bits, negated if fNeg
signed32(w, fNeg) ==
    IF fNeg
    THEN toInt32((65535 - w.hi + (IF w.lo = 0 THEN 1 ELSE 0)) % 65536,
                 (65536 - w.lo) % 65536)
    ELSE toInt32(w.hi, w.lo)

mulDigits(val1, val2) == carried(rawProduct(digits11(val1), digits11(val2)), 1, 0)

mulRounded(d, fNeg) == signed32(low32(d, roundedLow(d[1], lostBits(d))), fNeg)

\* (val1 * val2)|0: the product is a double, rounded to 53 bits, before |0
\* takes its low 32 bits
mul32(val1, val2) == mulRounded(mulDigits(val1, val2), (val1 < 0) # (val2 < 0))

\* (val1 / val2)|0 for val2 # 0: the quotient without its fraction
divPos(val1, val2) ==
    (val1 \div val2) + (IF val1 < 0 /\ val1 % val2 # 0 THEN 1 ELSE 0)

div32(val1, val2) ==
    IF val2 = MinInt32 THEN (IF val1 = MinInt32 THEN 1 ELSE 0)
    ELSE IF val1 = MinInt32 /\ val2 = -1 THEN MinInt32
    ELSE IF val2 > 0 THEN divPos(val1, val2)
    ELSE -divPos(val1, -val2)

\* (val1 % val2)|0 for val2 # 0: the remainder has the sign of val1
remPos(val1, val2) ==
    IF val1 < 0 /\ val1 % val2 # 0 THEN (val1 % val2) - val2 ELSE val1 % val2

rem32(val1, val2) ==
    IF val2 = MinInt32 THEN (IF val1 = MinInt32 THEN 0 ELSE val1)
    ELSE IF val2 > 0 THEN remPos(val1, val2)
    ELSE remPos(val1, -val2)

-----------------------------------------------------------------------------
(* The expression evaluator. A string is a sequence of characters.          *)

\* A value of the evaluator, and JavaScript's undefined
Num(v) == [ok |-> TRUE, v |-> v]

Undefined == [ok |-> FALSE, v |-> 0]

\* Debugger.aBinOpPrecedence
aBinOpPrecedence ==
    (<<"|", "|">> :> 0) @@ (<<"&", "&">> :> 1) @@ (<<"|">> :> 2) @@ (<<"^">> :> 3)
        @@ (<<"&">> :> 4) @@ (<<"!", "=">> :> 5) @@ (<<"=", "=">> :> 5)
        @@ (<<">", "=">> :> 6) @@ (<<">">> :> 6) @@ (<<"<", "=">> :> 6) @@ (<<"<">> :> 6)
        @@ (<<">", ">", ">">> :> 7) @@ (<<">", ">">> :> 7) @@ (<<"<", "<">> :> 7)
        @@ (<<"-">> :> 8) @@ (<<"+">> :> 8)
        @@ (<<"%">> :> 9) @@ (<<"/">> :> 9) @@ (<<"*">> :> 9)

\* The switch of evalExpression() on chOp, with the |0 of the push: [ok, v]
binOp(chOp, val1, val2) ==
    CASE chOp = <<"*">> -> Num(mul32(val1, val2))
      [] chOp = <<"/">> -> IF val2 = 0 THEN Undefined ELSE Num(div32(val1, val2))
      [] chOp = <<"%">> -> IF val2 = 0 THEN Undefined ELSE Num(rem32(val1, val2))
      [] chOp = <<"+">> -> Num(add32(val1, val2))
      [] chOp = <<"-">> -> Num(sub32(val1, val2))
      [] chOp = <<"<", "<">> -> Num(shl32(val1, val2 % 32))
      [] chOp = <<">", ">">> -> Num(sar32(val1, val2 % 32))
      [] chOp = <<">", ">", ">">> -> Num(shr32(val1, val2 % 32))
      [] chOp = <<"<">> -> Num(IF val1 < val2 THEN 1 ELSE 0)
      [] chOp = <<"<", "=">> -> Num(IF val1 <= val2 THEN 1 ELSE 0)
      [] chOp = <<">">> -> Num(IF val1 > val2 THEN 1 ELSE 0)
      [] chOp = <<">", "=">> -> Num(IF val1 >= val2 THEN 1 ELSE 0)
      [] chOp = <<"=", "=">> -> Num(IF val1 = val2 THEN 1 ELSE 0)
      [] chOp = <<"!", "=">> -> Num(IF val1 # val2 THEN 1 ELSE 0)
      [] chOp = <<"&">> -> Num(bitwise32("&", val1, val2))
      [] chOp = <<"^">> -> Num(bitwise32("^", val1, val2))
      [] chOp = <<"|">> -> Num(bitwise32("|", val1, val2))
      [] chOp = <<"&", "&">> -> Num(IF val1 # 0 /\ val2 # 0 THEN 1 ELSE 0)
      [] chOp = <<"|", "|">> -> Num(IF val1 # 0 \/ val2 # 0 THEN 1 ELSE 0)
      [] OTHER -> Undefined

\* array.pop(): the array without its last element
Popped(a) == SubSeq(a, 1, Len(a) - 1)

\* The stacks of the evaluator: fOK is what evalExpression() returns
Stacks(fOK, aVals, aOps) == [fOK |-> fOK, aVals |-> aVals, aOps |-> aOps]

RECURSIVE evalExpression(_, _, _)

\* The operator is popped, and so are its two values: the result is pushed
\* unless the operator cannot be applied
evalPopped(aVals, aOps, cOps, r) ==
    IF r.ok THEN evalExpression(Append(aVals, r.v), aOps, cOps - 1)
    ELSE Stacks(FALSE, aVals, aOps)

\* The same with the stacks left as they were when the operator cannot be
\* applied
evalExpressionKeep(aVals, aOps, cOps) ==
    IF cOps = 0 \/ Len(aOps) = 0 THEN Stacks(TRUE, aVals, aOps)
    ELSE IF Len(aVals) < 2 THEN Stacks(FALSE, aVals, aOps)
    ELSE IF binOp(aOps[Len(aOps)], aVals[Len(aVals) - 1], aVals[Len(aVals)]).ok
    THEN evalPopped(Popped(Popped(aVals)), Popped(aOps), cOps,
                    binOp(aOps[Len(aOps)], aVals[Len(aVals) - 1], aVals[Len(aVals)]))
    ELSE Stacks(FALSE, aVals, aOps)

\* evalExpression(aVals, aOps, cOps): cOps is -1 for "all"
evalExpression(aVals, aOps, cOps) ==
    IF cOps = 0 \/ Len(aOps) = 0 THEN Stacks(TRUE, aVals, aOps)
    ELSE IF Len(aVals) < 2 THEN Stacks(FALSE, aVals, Popped(aOps))
    ELSE evalPopped(Popped(Popped(aVals)), Popped(aOps), cOps,
                    binOp(aOps[Len(aOps)], aVals[Len(aVals) - 1], aVals[Len(aVals)]))

\* The alternatives of parseExpression()'s regular expression, in its order.
\* The fourth is written ^ without a backslash: it is not the character "^"
\* but the assertion that matches the empty string at the start of the input
regExp ==
    << <<"|", "|">>, <<"&", "&">>, <<"|">>, <<>>, <<"&">>, <<"!", "=">>, <<"=", "=">>,
       <<">", "=">>, <<">", ">", ">">>, <<">", ">">>, <<">">>, <<"<", "=">>,
       <<"<", "<">>, <<"<">>, <<"-">>, <<"+">>, <<"%">>, <<"/">>, <<"*">> >>

\* Whether the string w is at position q of s
startsWith(s, q, w) ==
    /\ q + Len(w) - 1 <= Len(s)
    /\ SubSeq(s, q, q + Len(w) - 1) = w

\* The length of the match of regExp at position q of s, by the first
\* alternative from the k-th that matches, or -1
RECURSIVE matchAt(_, _, _)
matchAt(s, q, k) ==
    IF k > Len(regExp) THEN -1
    ELSE IF regExp[k] = <<>> THEN (IF q = 1 THEN 0 ELSE matchAt(s, q, k + 1))
    ELSE IF startsWith(s, q, regExp[k]) THEN Len(regExp[k])
    ELSE matchAt(s, q, k + 1)

RECURSIVE splitFrom(_, _, _, _)

\* String.prototype.split: a match of length m at q that ends where the last
\* piece ended (an empty match) is passed over, any other ends a piece and is
\* itself a piece, the pattern being a capturing group
splitMatch(s, p, q, out, m) ==
    IF m = -1 \/ q + m = p THEN splitFrom(s, p, q + 1, out)
    ELSE splitFrom(s, q + m, q + m,
                   out \o <<SubSeq(s, p, q - 1), SubSeq(s, q, q + m - 1)>>)

splitFrom(s, p, q, out) ==
    IF q > Len(s) THEN Append(out, SubSeq(s, p, Len(s)))
    ELSE splitMatch(s, p, q, out, matchAt(s, q, 1))

\* sExp.split(regExp) of a string that is not empty
split(s) == splitFrom(s, 1, 1, <<>>)

\* str.trim(s)
RECURSIVE trimLeft(_)
trimLeft(s) == IF s # <<>> /\ s[1] = " " THEN trimLeft(Tail(s)) ELSE s

RECURSIVE trimRight(_)
trimRight(s) == IF s # <<>> /\ s[Len(s)] = " " THEN trimRight(Popped(s)) ELSE s

trim(s) == trimRight(trimLeft(s))

\* The value of a digit of a numeric literal
digitValue ==
    ("0" :> 0) @@ ("1" :> 1) @@ ("2" :> 2) @@ ("3" :> 3) @@ ("4" :> 4) @@ ("5" :> 5)
        @@ ("6" :> 6) @@ ("7" :> 7) @@ ("8" :> 8) @@ ("9" :> 9)
        @@ ("a" :> 10) @@ ("b" :> 11) @@ ("c" :> 12) @@ ("d" :> 13) @@ ("e" :> 14)
        @@ ("f" :> 15) @@ ("A" :> 10) @@ ("B" :> 11) @@ ("C" :> 12) @@ ("D" :> 13)
        @@ ("E" :> 14) @@ ("F" :> 15)

isDigit(c, base) == c \in DOMAIN digitValue /\ digitValue[c] < base

\* The low 32 bits of the number the digits of s write in a base: [hi, lo]
RECURSIVE digitsValue(_, _, _, _)
digitsValue(s, base, hi, lo) ==
    IF s = <<>> THEN [hi |-> hi, lo |-> lo]
    ELSE digitsValue(Tail(s), base,
                     (hi * base + ((lo * base + digitValue[s[1]]) \div 65536)) % 65536,
                     (lo * base + digitValue[s[1]]) % 65536)

parseDigits(s, base) ==
    IF s # <<>> /\ \A i \in 1..Len(s) : isDigit(s[i], base)
    THEN Num(signed32(digitsValue(s, base, 0, 0), FALSE))
    ELSE Undefined

\* str.parseInt(s): hexadecimal digits, or decimal digits and a period
parseInt(s) ==
    IF s # <<>> /\ s[Len(s)] = "." THEN parseDigits(Popped(s), 10)
    ELSE parseDigits(s, 16)

\* String.prototype.toUpperCase, for the letters
upperOf ==
    ("a" :> "A") @@ ("b" :> "B") @@ ("c" :> "C") @@ ("d" :> "D") @@ ("e" :> "E")
        @@ ("f" :> "F") @@ ("g" :> "G") @@ ("h" :> "H") @@ ("i" :> "I") @@ ("j" :> "J")
        @@ ("k" :> "K") @@ ("l" :> "L") @@ ("m" :> "M") @@ ("n" :> "N") @@ ("o" :> "O")
        @@ ("p" :> "P") @@ ("q" :> "Q") @@ ("r" :> "R") @@ ("s" :> "S") @@ ("t" :> "T")
        @@ ("u" :> "U") @@ ("v" :> "V") @@ ("w" :> "W") @@ ("x" :> "X") @@ ("y" :> "Y")
        @@ ("z" :> "Z")

toUpperCase(s) ==
    [i \in 1..Len(s) |-> IF s[i] \in DOMAIN upperOf THEN upperOf[s[i]] ELSE s[i]]

\* Debugger.REGS: the names of the registers by their index from 0; an empty
\* name stands for null
REGS ==
    << <<"A", "L">>, <<"C", "L">>, <<"D", "L">>, <<"B", "L">>,
       <<"A", "H">>, <<"C", "H">>, <<"D", "H">>, <<"B", "H">>,
       <<"A", "X">>, <<"C", "X">>, <<"D", "X">>, <<"B", "X">>,
       <<"S", "P">>, <<"B", "P">>, <<"S", "I">>, <<"D", "I">>,
       <<"E", "S">>, <<"C", "S">>, <<"S", "S">>, <<"D", "S">>,
       <<"F", "S">>, <<"G", "S">>, <<"I", "P">>, <<"P", "S">>,
       <<"E", "A", "X">>, <<"E", "C", "X">>, <<"E", "D", "X">>, <<"E", "B", "X">>,
       <<"E", "S", "P">>, <<"E", "B", "P">>, <<"E", "S", "I">>, <<"E", "D", "I">>,
       <<"C", "R", "0">>, <<"C", "R", "1">>, <<"C", "R", "2">>, <<"C", "R", "3">>,
       <<>>, <<>>, <<>>, <<>>,
       <<"D", "R", "0">>, <<"D", "R", "1">>, <<"D", "R", "2">>, <<"D", "R", "3">>,
       <<>>, <<>>, <<"D", "R", "6">>, <<"D", "R", "7">>,
       <<>>, <<>>, <<>>, <<>>, <<>>, <<>>, <<"T", "R", "6">>, <<"T", "R", "7">>,
       <<"E", "I", "P">> >>

\* usr.indexOf(Debugger.REGS, sReg) from the k-th name
RECURSIVE indexOfReg(_, _)
indexOfReg(sReg, k) ==
    IF k > Len(REGS) THEN -1
    ELSE IF REGS[k] = sReg THEN k - 1
    ELSE indexOfReg(sReg, k + 1)

\* getRegIndex(sReg)
getRegIndex(sReg) ==
    IF sReg = <<>> THEN -1 ELSE indexOfReg(toUpperCase(sReg), 1)

\* The CPU's registers: the model's CPU holds a value in EAX and zero in every
\* other general register, in IP and in the flags
cpuReg32(i) == IF i = 0 THEN regEAX ELSE 0

\* The selector in a segment register: ES, CS, SS, DS
cpuSeg(i) == IF i = 1 THEN getCS ELSE 0

\* getRegValue(iReg): the value of the register, or undefined for a register
\* that the CPU's model does not have
getRegValue(iReg) ==
    CASE iReg \in 0..3   -> Num(cpuReg32(iReg) % 256)
      [] iReg \in 4..7   -> Num((cpuReg32(iReg - 4) \div 256) % 256)
      [] iReg \in 8..15  -> Num(cpuReg32(iReg - 8) % 65536)
      [] iReg \in 16..19 -> Num(cpuSeg(iReg - 16))
      [] iReg = 22       -> Num(0)
      [] iReg = 23       -> Num(0)
      [] iReg = 32 /\ model = MODEL_80286 -> Num(0)
      [] iReg \in (24..35) \cup {20, 21, 56} /\ model >= MODEL_80386 ->
             Num(IF iReg \in 24..31 THEN cpuReg32(iReg - 24) ELSE 0)
      [] OTHER -> Undefined

\* getVariable(sVar)
getVariable(sVar) ==
    IF sVar \in DOMAIN aVariables THEN Num(aVariables[sVar]) ELSE Undefined

\* The same with the variable first and the register second
parseValueVariableFirst(sValue) ==
    IF getVariable(sValue).ok THEN getVariable(sValue)
    ELSE IF getRegIndex(sValue) >= 0 THEN getRegValue(getRegIndex(sValue))
    ELSE parseInt(sValue)

\* parseValue(sValue): a register, else a variable, else a number
parseValue(sValue) ==
    IF getRegIndex(sValue) >= 0 THEN getRegValue(getRegIndex(sValue))
    ELSE IF getVariable(sValue).ok THEN getVariable(sValue)
    ELSE parseInt(sValue)

\* The state of parseExpression()'s loop: fFailed records that a call of
\* evalExpression() returned false
Parse(fError, fFailed, aVals, aOps) ==
    [fError |-> fError, fFailed |-> fFailed, aVals |-> aVals, aOps |-> aOps]

RECURSIVE parseValues(_, _, _, _, _)

\* The operator sOp follows a value: the operator on top of the stack is
\* applied first if sOp's precedence is lower (what evalExpression() returns
\* is not looked at), then sOp is pushed
pushedOp(asValues, i, sOp, fFailed, e) ==
    parseValues(asValues, i + 2, fFailed \/ ~e.fOK, e.aVals, Append(e.aOps, sOp))

parseOp(asValues, i, sOp, fFailed, aVals, aOps) ==
    pushedOp(asValues, i, sOp, fFailed,
             IF Len(aOps) > 0
                /\ aBinOpPrecedence[sOp] < aBinOpPrecedence[aOps[Len(aOps)]]
             THEN evalExpression(aVals, aOps, 1)
             ELSE Stacks(TRUE, aVals, aOps))

parsedValue(asValues, i, fFailed, aVals, aOps, v) ==
    IF ~v.ok THEN Parse(TRUE, fFailed, aVals, aOps)
    ELSE IF i = Len(asValues) THEN Parse(FALSE, fFailed, Append(aVals, v.v), aOps)
    ELSE parseOp(asValues, i, asValues[i + 1], fFailed, Append(aVals, v.v), aOps)

\* The loop of parseExpression() from the i-th piece, a value
parseValues(asValues, i, fFailed, aVals, aOps) ==
    IF i > Len(asValues) THEN Parse(FALSE, fFailed, aVals, aOps)
    ELSE IF trim(asValues[i]) = <<>> THEN Parse(TRUE, fFailed, aVals, aOps)
    ELSE parsedValue(asValues, i, fFailed, aVals, aOps, parseValue(trim(asValues[i])))

\* The end of parseExpression(): the operators left are applied, and one value
\* must remain: [value, fFailed]
parsedExpression(p, e) ==
    [value |-> IF ~p.fError /\ e.fOK /\ Len(e.aVals) = 1 THEN Num(e.aVals[1])
               ELSE Undefined,
     fFailed |-> p.fFailed \/ ~e.fOK]

evaluated(p) == parsedExpression(p, evalExpression(p.aVals, p.aOps, -1))

\* parseReference(sValue) of a string without braces and brackets
parseReference(sValue) == sValue

\* parseExpression(sExp): [value, fFailed]
parseExpression(sExp) ==
    IF sExp = <<>> THEN [value |-> Undefined, fFailed |-> FALSE]
    ELSE evaluated(parseValues(split(parseReference(sExp)), 1, FALSE, <<>>, <<>>))

-----------------------------------------------------------------------------
(* The commands "print" and "let" on the command lines of a script *)

\* A command line: "print" with an expression or "let" with a variable, "="
\* and an expression; the expression is given in pieces, values and operators
\* in turn
PrintCmd(toks) == [cmd |-> "print", sVar |-> <<>>, toks |-> toks]

LetCmd(sVar, toks) == [cmd |-> "let", sVar |-> sVar, toks |-> toks]

\* The string of the pieces
RECURSIVE Join(_)
Join(toks) == IF toks = <<>> THEN <<>> ELSE Head(toks) \o Join(Tail(toks))

\* What "print" and "let" record: the pieces of the expression, its string,
\* what parseExpression() returned and the variables before the command
LastExpr(op, c, r, fOK) ==
    [op |-> op, sVar |-> c.sVar, toks |-> c.toks, sExp |-> Join(c.toks),
     value |-> r.value, fFailed |-> r.fFailed, ret |-> fOK, pre |-> aVariables]

\* setVariable(sVar, value) and delVariable(sVar)
setVariable(sVar, value) ==
    [s \in DOMAIN aVariables \cup {sVar} |-> IF s = sVar THEN value ELSE aVariables[s]]

delVariable(sVar) == [s \in DOMAIN aVariables \ {sVar} |-> aVariables[s]]

\* doPrint(sCmd) with an expression
DoPrint ==
    /\ sInput # <<>>
    /\ Head(sInput).cmd = "print"
    /\ sInput' = Tail(sInput)
    /\ last' = LastExpr("print", Head(sInput),
                        parseExpression(trim(Join(Head(sInput).toks))), TRUE)
    /\ UNCHANGED <<aVariables, regEAX, model>>
    /\ UNCHANGED <<dbgVars, histVars, traceVars, insVars, aSymbolTable>>

\* What doLet() does with the value of the expression
letValue(c, r) ==
    /\ aVariables' = IF c.toks = <<>> THEN delVariable(c.sVar)
                     ELSE IF r.value.ok THEN setVariable(c.sVar, r.value.v)
                     ELSE aVariables
    /\ last' = LastExpr("let", c, r, c.toks = <<>> \/ r.value.ok)

\* doLet(sCmd) with a variable, "=" and an expression or nothing
DoLet ==
    /\ sInput # <<>>
    /\ Head(sInput).cmd = "let"
    /\ sInput' = Tail(sInput)
    /\ letValue(Head(sInput), parseExpression(Join(Head(sInput).toks)))
    /\ UNCHANGED <<regEAX, model>>
    /\ UNCHANGED <<dbgVars, histVars, traceVars, insVars, aSymbolTable>>

\* The most binary operators of an expression of the precedence scripts
MaxBinOps == 3

\* The values and the operators of the precedence scripts, an operator of six
\* of the ten levels of precedence
PrecLits == {<<"0">>, <<"3">>}

PrecOps == {<<"|", "|">>, <<"&">>, <<"=", "=">>, <<"<", "<">>, <<"-">>, <<"*">>}

RECURSIVE Chains(_)
Chains(k) ==
    IF k = 0 THEN {<<a>> : a \in PrecLits}
    ELSE {c \o <<o, a>> : c \in Chains(k - 1), o \in PrecOps, a \in PrecLits}

PrecExprs == UNION {Chains(k) : k \in 0..MaxBinOps}

\* Every operator of the evaluator, "^" among them
AllOps == ({regExp[k] : k \in 1..Len(regExp)} \ {<<>>}) \cup {<<"^">>}

\* 0, 1, 2, 3, 5, 1f, 20, ffff, 10000 and 7fffffff
ArithLits ==
    {<<"0">>, <<"1">>, <<"2">>, <<"3">>, <<"5">>, <<"1", "f">>, <<"2", "0">>,
     <<"f", "f", "f", "f">>, <<"1", "0", "0", "0", "0">>,
     <<"7", "f", "f", "f", "f", "f", "f", "f">>}

EAX == <<"e", "a", "x">>

LitExprs == {<<x, o, y>> : x \in ArithLits, o \in AllOps, y \in ArithLits}

RegExprs ==
    {<<EAX, o, y>> : o \in AllOps, y \in ArithLits \cup {EAX}}
        \cup {<<x, o, EAX>> : x \in ArithLits, o \in AllOps}

\* The values of EAX
EAXValues == {MinInt32, -1, -7, 65537, MaxInt32}

\* Expressions of two operators with divisions and remainders
DivOps == {<<"/">>, <<"%">>, <<"+">>, <<"*">>, <<"|", "|">>, <<"<">>}

DivExprs ==
    {<<a, o1, b, o2, c>> : a \in PrecLits, o1 \in DivOps, b \in PrecLits,
                           o2 \in DivOps, c \in PrecLits}

\* A division or a remainder by zero before two operators of lower and lower
\* precedence
ZeroDivExprs ==
    {<<a, o1, <<"0">>, o2, b, o3, c>> :
        a \in PrecLits, o1 \in {<<"/">>, <<"%">>}, o2 \in {<<"+">>, <<"<", "<">>},
        b \in PrecLits, o3 \in {<<"|">>, <<"|", "|">>}, c \in PrecLits}

\* "2+3*4.", " 2 + 3 ", "zz", "3+", "2 3", "12345678." and "3+zz*0"
Examples ==
    {<<<<"2">>, <<"+">>, <<"3">>, <<"*">>, <<"4", ".">>>>,
     <<<<" ", "2", " ">>, <<"+">>, <<" ", "3", " ">>>>,
     <<<<"z", "z">>>>,
     <<<<"3">>, <<"+">>>>,
     <<<<"2", " ", "3">>>>,
     <<<<"1", "2", "3", "4", "5", "6", "7", "8", ".">>>>,
     <<<<"3">>, <<"+">>, <<"z", "z">>, <<"*">>, <<"0">>>>}

\* The names "let" is given: a, al, 10, eax and x
VarNames == {<<"a">>, <<"a", "l">>, <<"1", "0">>, EAX, <<"x">>}

\* What "let" assigns: 5, 3+4, zz and nothing
LetExprs == {<<<<"5">>>>, <<<<"3">>, <<"+">>, <<"4">>>>, <<<<"z", "z">>>>, <<>>}

\* A "let", or a "let" and its deletion, and a "print" of a name
VarScripts ==
    {<<LetCmd(n, e), PrintCmd(<<p>>)>> : n \in VarNames, e \in LetExprs, p \in VarNames}
        \cup {<<LetCmd(n, e), PrintCmd(<<p, <<"+">>, <<"1">>>>)>> :
                 n \in VarNames, e \in LetExprs, p \in {<<"a">>, <<"x">>}}
        \cup {<<LetCmd(n, <<<<"5">>>>), LetCmd(n, <<>>), PrintCmd(<<n>>)>> :
                 n \in VarNames}

\* A script with the CPU it runs on
Run(s, v, m) == [sInput |-> s, regEAX |-> v, model |-> m]

Runs ==
    {Run(<<PrintCmd(e)>>, 0, MODEL_80386) :
        e \in PrecExprs \cup LitExprs \cup DivExprs \cup ZeroDivExprs \cup Examples}
        \cup {Run(<<PrintCmd(e)>>, v, MODEL_80386) : e \in RegExprs, v \in EAXValues}
        \cup {Run(s, 4660, m) : s \in VarScripts,
                                 m \in {MODEL_8086, MODEL_80286, MODEL_80386}}

InitExpr ==
    /\ cpuMode = "reset"
    /\ descLoaded = FALSE
    /\ maskAddr = BusLimit24
    /\ aBreakExec = <<>>
    /\ aBreakRead = <<>>
    /\ aBreakWrite = <<>>
    /\ nSuppressBreaks = 0
    /\ cpuRunning = FALSE
    /\ fRunning = FALSE
    /\ nStep = 0
    /\ busMemBreaks = <<>>
    /\ aSymbolTable = <<>>
    /\ bitsMessage = {}
    /\ dbgAddrNextData = newAddr(0, 0, Null, ADDR_REAL)
    /\ aVariables = <<>>
    /\ \E run \in Runs :
           /\ sInput = run.sInput
           /\ regEAX = run.regEAX
           /\ model = run.model
    /\ DEBUG = FALSE
    /\ aOpcodeHistory = <<>>
    /\ iOpcodeHistory = 0
    /\ aaOpcodeCounts = <<>>
    /\ traceEnabled = {}
    /\ iTraceBuffer = 0
    /\ aTraceBuffer = <<>>
    /\ NoDisassembly
    /\ last = NoLast

NextExpr ==
    \/ DoPrint
    \/ DoLet

SpecExpr == InitExpr /\ [][NextExpr]_vars

-----------------------------------------------------------------------------
(* Claims about the expression evaluator *)

\* The values and the operators of the pieces of an expression
ValsOf(toks) == [i \in 1..((Len(toks) + 1) \div 2) |-> toks[2 * i - 1]]

OpsOf(toks) == [i \in 1..(Len(toks) \div 2) |-> toks[2 * i]]

\* The expression is numbers with a binary operator between any two
Literals(toks) ==
    /\ Len(toks) % 2 = 1
    /\ \A i \in 1..Len(ValsOf(toks)) : parseInt(trim(ValsOf(toks)[i])).ok
    /\ \A i \in 1..Len(OpsOf(toks)) : OpsOf(toks)[i] \in DOMAIN aBinOpPrecedence

NumbersOf(toks) == [i \in 1..Len(ValsOf(toks)) |-> parseInt(trim(ValsOf(toks)[i])).v]

\* No two operators of the expression have the same precedence
DistinctLevels(ops) ==
    \A i, j \in 1..Len(ops) :
        i # j => aBinOpPrecedence[ops[i]] # aBinOpPrecedence[ops[j]]

\* The leftmost of the operators of the highest precedence
Highest(ops) ==
    CHOOSE i \in 1..Len(ops) :
        /\ \A j \in 1..Len(ops) : aBinOpPrecedence[ops[j]] <= aBinOpPrecedence[ops[i]]
        /\ \A j \in 1..(i - 1) : aBinOpPrecedence[ops[j]] < aBinOpPrecedence[ops[i]]

\* The value of an expression whose operators are applied in the order of
\* their precedence
RECURSIVE ByPrecedence(_, _)
ByPrecedence(vals, ops) ==
    IF ops = <<>> THEN Num(vals[1])
    ELSE LET i == Highest(ops)
             r == binOp(ops[i], vals[i], vals[i + 1])
         IN  IF ~r.ok THEN Undefined
             ELSE ByPrecedence([k \in 1..(Len(vals) - 1) |->
                                  IF k < i THEN vals[k]
                                  ELSE IF k = i THEN r.v ELSE vals[k + 1]],
                               [k \in 1..(Len(ops) - 1) |->
                                  IF k < i THEN ops[k] ELSE ops[k + 1]])

\* C11: "print" of an expression of numbers and binary operators, no two of
\* the same precedence and none of them "^", prints the value that the
\* operators give when they are applied in the order of their precedence,
\* wherever that value is defined
C11_ByPrecedence ==
    (/\ last.op = "print"
     /\ Literals(last.toks)
     /\ \A i \in 1..Len(OpsOf(last.toks)) : OpsOf(last.toks)[i] # <<"^">>
     /\ DistinctLevels(OpsOf(last.toks))
     /\ ByPrecedence(NumbersOf(last.toks), OpsOf(last.toks)).ok)
        => last.value = ByPrecedence(NumbersOf(last.toks), OpsOf(last.toks))

\* The number an operand of a "print" on the 80386 stands for: EAX or a literal
OperandOf(tok) == IF tok = EAX THEN regEAX ELSE parseInt(trim(tok)).v

\* The operands of the expression are EAX or numbers
Operands(toks) ==
    \A i \in 1..Len(ValsOf(toks)) :
        ValsOf(toks)[i] = EAX \/ parseInt(trim(ValsOf(toks)[i])).ok

\* The exact result of an operator reduced to 32 bits: a product keeps every
\* one of its low 32 bits, a quotient loses its fraction and a shift takes
\* the low five bits of its count
Exact(chOp, val1, val2) ==
    IF chOp = <<"*">>
    THEN Num(signed32(low32(mulDigits(val1, val2), mulDigits(val1, val2)[1]),
                      (val1 < 0) # (val2 < 0)))
    ELSE binOp(chOp, val1, val2)

\* C12: "print" of one operator between two values prints the exact result
\* of the operator reduced to a signed 32-bit value, whenever the operator
\* can be applied
C12_ExactWrapped ==
    (/\ last.op = "print"
     /\ Len(last.toks) = 3
     /\ Operands(last.toks)
     /\ last.toks[2] \in DOMAIN aBinOpPrecedence \ {<<"^">>}
     /\ Exact(last.toks[2], OperandOf(last.toks[1]), OperandOf(last.toks[3])).ok)
        => last.value = Exact(last.toks[2], OperandOf(last.toks[1]),
                              OperandOf(last.toks[3]))

\* C13: whenever an operator of the expression of a "print" could not be
\* applied (a call of evalExpression() returned false), parseExpression()
\* returns undefined
C13_FailureIsUndefined ==
    (last.op = "print" /\ last.fFailed) => ~last.value.ok

\* C14: "print" of two values with "^" between them prints the bitwise
\* exclusive OR of the two
C14_Xor ==
    (/\ last.op = "print"
     /\ Len(last.toks) = 3
     /\ Operands(last.toks)
     /\ last.toks[2] = <<"^">>)
        => last.value = Num(bitwise32("^", OperandOf(last.toks[1]),
                                      OperandOf(last.toks[3])))

\* C15: "print" of a bare name prints the register of that name if there is
\* one (AL is the low byte of EAX; EAX is the whole of it on an 80386 and
\* undefined on a CPU without it), whatever variable has the name; else the
\* variable of that name if there is one, whatever number the name writes;
\* else the hexadecimal number the name writes
C15_RegisterVariableNumber ==
    (last.op = "print" /\ Len(last.toks) = 1 /\ last.toks[1] \in VarNames) =>
        last.value =
            CASE last.toks[1] = <<"a", "l">> -> Num(regEAX % 256)
              [] last.toks[1] = EAX ->
                     IF model = MODEL_80386 THEN Num(regEAX) ELSE Undefined
              [] last.toks[1] \in DOMAIN aVariables -> Num(aVariables[last.toks[1]])
              [] last.toks[1] = <<"a">> -> Num(10)
              [] last.toks[1] = <<"1", "0">> -> Num(16)
              [] OTHER -> Undefined

\* "let al = 5" and "print al" have run: the low byte of EAX, 34 of 1234, is
\* printed
C15_RegisterWins ==
    /\ last.op = "print"
    /\ last.toks = << <<"a", "l">> >>
    /\ <<"a", "l">> \in DOMAIN aVariables
    /\ aVariables[<<"a", "l">>] = 5
    /\ last.value = Num(52)

-----------------------------------------------------------------------------
(* The execution history and the instruction trace under the commands that  *)
(* change what checksEnabled() looks at                                     *)

\* Debugger.TRACE_LIMIT, the capacity of the trace buffer
TRACE_LIMIT == 2

\* The most lines traceLog() writes: one more than the buffer holds
MaxTraced == TRACE_LIMIT + 1

\* The most instructions the counts count: one more than the ring holds
MaxHistory == HISTORY_LIMIT + 1

\* The most breakpoints of the exec list
MaxHistBreaks == 1

\* Debugger.TRACE: one of its categories, with its instruction
TRACE == [ROLB |-> "ROL"]

\* The categories an "info" command names: all of them, or those of an
\* instruction
traceMatches(sCategory) ==
    {prop \in DOMAIN TRACE : sCategory = "ALL" \/ sCategory = TRACE[prop]}

\* "info CATEGORY on|off" in a debug build
DoInfo(sCategory, fEnable) ==
    /\ DEBUG
    /\ traceEnabled' = IF fEnable THEN traceEnabled \cup traceMatches(sCategory)
                       ELSE traceEnabled \ traceMatches(sCategory)
    /\ last' = Last("info", sCategory, NoQuery, Null, fEnable, FALSE, 0, <<>>, <<>>)
    /\ UNCHANGED <<DEBUG, iTraceBuffer, aTraceBuffer>>
    /\ UNCHANGED <<dbgVars, evalVars, histVars, insVars, aSymbolTable>>

\* The trace buffer with the line of prop at index i: the buffer is allocated
\* by the first line, and an index past its end lengthens it
traceWritten(aBuffer, i, prop) ==
    [k \in 1..(IF i + 1 > Len(aBuffer) THEN i + 1 ELSE Len(aBuffer)) |->
        IF k = i + 1 THEN prop ELSE IF k <= Len(aBuffer) THEN aBuffer[k] ELSE ""]

traceAllocated(aBuffer) ==
    IF aBuffer = <<>> THEN [k \in 1..TRACE_LIMIT |-> ""] ELSE aBuffer

\* traceLog(prop, ...): the CPU has executed an instruction of a category
\* that is enabled; when the index reaches the end of the buffer every
\* category is disabled
TraceLog(prop) ==
    /\ DEBUG
    /\ prop \in traceEnabled
    /\ iTraceBuffer < MaxTraced
    /\ aTraceBuffer' = traceWritten(traceAllocated(aTraceBuffer), iTraceBuffer, prop)
    /\ iTraceBuffer' = iTraceBuffer + 1
    /\ traceEnabled' = IF iTraceBuffer + 1 >= Len(aTraceBuffer') THEN {}
                       ELSE traceEnabled
    /\ last' = Last("trace", prop, NoQuery, Null, TRUE, FALSE, 0, <<>>, <<>>)
    /\ UNCHANGED DEBUG
    /\ UNCHANGED <<dbgVars, evalVars, histVars, insVars, aSymbolTable>>

\* doMessages(): "m int on" and "m int off"
doMessages(D, fOn) ==
    historyInit([D EXCEPT !.bitsMessage = IF fOn THEN @ \cup {"int"}
                                          ELSE @ \ {"int"}])

DoMessages(fOn) ==
    /\ Commit(doMessages(Dbg, fOn))
    /\ last' = Last("messages", "int", NoQuery, Null, fOn, FALSE, 0, <<>>, <<>>)
    /\ UNCHANGED evalVars
    /\ UNCHANGED <<traceVars, insVars, aSymbolTable>>
    /\ UNCHANGED <<cpuMode, descLoaded, maskAddr, dbgAddrNextData>>

\* stepCPU(0): the debugger steps the stopped CPU over the instruction at
\* addr, and calls checkInstruction() itself if checks are enabled
stepCPU(D, addr) ==
    IF checksEnabled(D) THEN checkInstruction(D, addr, 0).D ELSE D

StepCPU(addr, max) ==
    /\ ~cpuRunning
    /\ \E D \in {stepCPU(Dbg, addr)} :
           /\ cOpcodesCounted(D.aaOpcodeCounts) <= max
           /\ Commit(D)
    /\ last' = Last("step", "exec", NoQuery, addr, FALSE, FALSE, 0,
                    <<aBreakExec, aOpcodeHistory>>, <<>>)
    /\ UNCHANGED evalVars
    /\ UNCHANGED <<traceVars, insVars, aSymbolTable>>
    /\ UNCHANGED <<cpuMode, descLoaded, maskAddr, dbgAddrNextData>>

\* The addresses of the instructions the CPU executes: one more than the ring
\* holds, the first with a breakpoint
HistAddrs == {AddrTop20 + k : k \in 0..HISTORY_LIMIT}

\* The debugger as its constructor leaves it, in a debug or a release build
InitHist ==
    /\ cpuMode = "reset"
    /\ descLoaded = FALSE
    /\ maskAddr = BusLimit24
    /\ aBreakExec = <<>>
    /\ aBreakRead = <<>>
    /\ aBreakWrite = <<>>
    /\ nSuppressBreaks = 0
    /\ cpuRunning = FALSE
    /\ fRunning = FALSE
    /\ nStep = 0
    /\ busMemBreaks = <<>>
    /\ aSymbolTable = <<>>
    /\ bitsMessage = {}
    /\ dbgAddrNextData = newAddr(0, 0, Null, ADDR_REAL)
    /\ aVariables = <<>>
    /\ regEAX = 0
    /\ model = MODEL_80286
    /\ sInput = <<>>
    /\ DEBUG \in BOOLEAN
    /\ aOpcodeHistory = IF DEBUG THEN [i \in 1..HISTORY_LIMIT |->
                                          newAddr(0, Null, Null, 0)]
                        ELSE <<>>
    /\ iOpcodeHistory = 0
    /\ aaOpcodeCounts = IF DEBUG THEN [b \in 1..256 |-> 0] ELSE <<>>
    /\ traceEnabled = {}
    /\ iTraceBuffer = 0
    /\ aTraceBuffer = <<>>
    /\ NoDisassembly
    /\ last = NoLast

NextHist ==
    \/ DoBreakSet("exec", LinQuery(AddrTop20), NoCmds, MaxHistBreaks)
    \/ DoBreakClear(LinQuery(AddrTop20))
    \/ DoBreakClearAll
    \/ \E q \in {LinQuery(AddrTop20), NoQuery} :
          DoRun(q, NoCmds, TRUE, MaxHistBreaks)
    \/ \E addr \in HistAddrs : CheckInstruction(addr, MaxHistory)
    \/ \E addr \in HistAddrs : StepCPU(addr, MaxHistory)
    \/ \E fOn \in BOOLEAN : DoMessages(fOn)
    \/ DoHalt(AddrTop20 + 1)
    \/ Reset
    \/ \E fEnable \in BOOLEAN : DoInfo("ALL", fEnable)
    \/ \E prop \in DOMAIN TRACE : TraceLog(prop)

SpecHist == InitHist /\ [][NextHist]_vars

-----------------------------------------------------------------------------
(* Claims about the execution history *)

\* What checkInstruction() stores in a slot of the ring for the instruction
\* at the linear address addr: its CS:IP
SlotOf(addr) == newAddr(getIP(addr), getCS, Null, 0)

\* The ring has just been filled: it holds as many instructions as it has
\* slots, at distinct addresses, and the cursor is back on slot 0
RingFull ==
    /\ aOpcodeHistory # <<>>
    /\ cOpcodesCounted(aaOpcodeCounts) = HISTORY_LIMIT
    /\ iOpcodeHistory = 0
    /\ \A i, j \in 1..HISTORY_LIMIT : i # j => aOpcodeHistory[i] # aOpcodeHistory[j]

\* checkInstruction() retires an instruction into the history: the counts
\* count one more
Retires ==
    /\ aaOpcodeCounts # <<>>
    /\ aaOpcodeCounts' # <<>>
    /\ last'.op \in {"check", "step"}
    /\ cOpcodesCounted(aaOpcodeCounts') = cOpcodesCounted(aaOpcodeCounts) + 1

\* C16: the instruction retired after the ring has been filled with distinct
\* addresses disables every tracing flag and leaves slot 0 as it was, with
\* the first address recorded
C16_FullDisablesTracing ==
    [][(RingFull /\ Retires) =>
          (traceEnabled' = {} /\ aOpcodeHistory'[1] = aOpcodeHistory[1])]_vars

\* C16 (as the code has it): the instruction retired after the ring has been
\* filled with distinct addresses is stored in slot 0, every other slot stays
\* as it was, the cursor moves to slot 1, and the tracing flags stay as they
\* were
C16_FullWraps ==
    [][(RingFull /\ Retires) =>
          /\ aOpcodeHistory' = [aOpcodeHistory EXCEPT ![1] = SlotOf(last'.addr)]
          /\ iOpcodeHistory' = 1
          /\ traceEnabled' = traceEnabled]_vars

\* A step has retired an instruction into a ring full of distinct addresses,
\* with tracing on: slot 0 has lost the first address to the instruction's
\* and tracing is still on
C16_SlotOverwritten ==
    /\ last.op = "step"
    /\ cOpcodesCounted(aaOpcodeCounts) = HISTORY_LIMIT + 1
    /\ Len(last.pre[2]) = HISTORY_LIMIT
    /\ \A i, j \in 1..HISTORY_LIMIT : i # j => last.pre[2][i] # last.pre[2][j]
    /\ aOpcodeHistory[1] = SlotOf(last.addr)
    /\ aOpcodeHistory[1] # last.pre[2][1]
    /\ iOpcodeHistory = 1
    /\ traceEnabled # {}

C18_AllocatedIffChecks ==
    last.op \in {"add", "clear", "clearall", "run", "halt", "messages", "reset"} =>
        /\ (aOpcodeHistory # <<>>) <=> checksEnabled(Dbg)
        /\ (aaOpcodeCounts # <<>>) <=> checksEnabled(Dbg)

-----------------------------------------------------------------------------
(* The disassembler under the command "u" *)

\* doUnassemble() calls getInstruction(), for the first instruction or after
\* one that was not complete, and getInstruction() fetches the first byte
GetInstruction ==
    /\ pcIns = "idle" \/ (pcIns = "done" /\ ~dbgAddrCode.fComplete)
    /\ bOpcode' = codeByte(dbgAddrCode)
    /\ dbgAddrCode' = codeNext(dbgAddrCode)
    /\ cMaxOverrides' = 4
    /\ cOverrides' = 0
    /\ fDataPrefix' = FALSE
    /\ fAddrPrefix' = FALSE
    /\ aOpDesc' = NoDesc
    /\ bModRM' = -1
    /\ pcIns' = "loop"
    /\ last' = Last("u", "", NoQuery, Null, TRUE, FALSE, 0, <<dbgAddrCode>>, <<>>)
    /\ UNCHANGED aCode
    /\ UNCHANGED <<dbgVars, evalVars, histVars, traceVars, aSymbolTable>>

\* One pass of the prefix loop: the first prefix of a kind toggles the size,
\* every prefix is counted, and the next byte is fetched
PrefixLoop ==
    /\ pcIns = "loop"
    /\ whileOverrides(bOpcode, cMaxOverrides)
    /\ cMaxOverrides' = decOverrides(bOpcode, cMaxOverrides)
    /\ dbgAddrCode' =
           codeNext([dbgAddrCode EXCEPT
                       !.fData32 = IF bOpcode = OPCODE_OS /\ ~fDataPrefix
                                   THEN ~@ ELSE @,
                       !.fAddr32 = IF bOpcode = OPCODE_AS /\ ~fAddrPrefix
                                   THEN ~@ ELSE @])
    /\ fDataPrefix' = (fDataPrefix \/ bOpcode = OPCODE_OS)
    /\ fAddrPrefix' = (fAddrPrefix \/ bOpcode = OPCODE_AS)
    /\ cOverrides' = cOverrides + 1
    /\ bOpcode' = codeByte(dbgAddrCode)
    /\ UNCHANGED <<aCode, pcIns, aOpDesc, bModRM, last>>
    /\ UNCHANGED <<dbgVars, evalVars, histVars, traceVars, aSymbolTable>>

\* The rest of getInstruction(), from the end of the loop: the descriptor is
\* looked up, and initAddrSize() ends the call; indexing an undefined
\* descriptor throws.  The bytes of the operands are not fetched here
GetDescriptor ==
    /\ pcIns = "loop"
    /\ ~whileOverrides(bOpcode, cMaxOverrides)
    /\ cMaxOverrides' = decOverrides(bOpcode, cMaxOverrides)
    /\ \E r \in {grouped(escaped(initBus(model)[bOpcode + 1], dbgAddrCode,
                                  bOpcode))} :
           /\ aOpDesc' = r.aOpDesc
           /\ bOpcode' = r.bOpcode
           /\ bModRM' = r.bModRM
           /\ pcIns' = IF r.aOpDesc = NoDesc THEN "threw" ELSE "done"
           /\ dbgAddrCode' =
                  IF r.aOpDesc = NoDesc THEN r.dbgAddr
                  ELSE initAddrSize(r.dbgAddr, isComplete(r.aOpDesc), cOverrides)
    /\ UNCHANGED <<aCode, cOverrides, fDataPrefix, fAddrPrefix, last>>
    /\ UNCHANGED <<dbgVars, evalVars, histVars, traceVars, aSymbolTable>>

MaxPrefixes == 6

\* The ModRM bytes with mod 00 and rm 000, one for every reg
ModRMs == {reg * 8 : reg \in 0..7}

\* The runs of size prefixes
PrefixRuns == UNION {[1..n -> {OPCODE_OS, OPCODE_AS}] : n \in 0..MaxPrefixes}

\* The code: every opcode with a ModRM byte for every reg, every second byte
\* after the 0x0F escape likewise, and every run of size prefixes before a
\* segment prefix (ES:) or a NOP
Codes ==
    {<<b, m>> : b \in (0..255) \ {15}, m \in ModRMs}
        \cup {<<15, b, m>> : b \in 0..255, m \in ModRMs}
        \cup {p \o <<b>> : p \in PrefixRuns, b \in {38, 144}}

\* The CPUs and the size of their code segment: only an 80386 has 32-bit ones
CPUs ==
    {<<MODEL_8086, FALSE>>, <<MODEL_80186, FALSE>>, <<MODEL_80286, FALSE>>,
     <<MODEL_80386, FALSE>>, <<MODEL_80386, TRUE>>}

InitIns ==
    /\ cpuMode = "reset"
    /\ descLoaded = FALSE
    /\ maskAddr = BusLimit24
    /\ aBreakExec = <<>>
    /\ aBreakRead = <<>>
    /\ aBreakWrite = <<>>
    /\ nSuppressBreaks = 0
    /\ cpuRunning = FALSE
    /\ fRunning = FALSE
    /\ nStep = 0
    /\ busMemBreaks = <<>>
    /\ aSymbolTable = <<>>
    /\ bitsMessage = {}
    /\ dbgAddrNextData = newAddr(0, 0, Null, ADDR_REAL)
    /\ aVariables = <<>>
    /\ regEAX = 0
    /\ sInput = <<>>
    /\ DEBUG = FALSE
    /\ aOpcodeHistory = <<>>
    /\ iOpcodeHistory = 0
    /\ aaOpcodeCounts = <<>>
    /\ traceEnabled = {}
    /\ iTraceBuffer = 0
    /\ aTraceBuffer = <<>>
    /\ \E cpu \in CPUs :
           /\ model = cpu[1]
           /\ dbgAddrCode = codeAddr(cpu[2])
    /\ aCode \in Codes
    /\ pcIns = "idle"
    /\ bOpcode = 0
    /\ cMaxOverrides = 0
    /\ cOverrides = 0
    /\ fDataPrefix = FALSE
    /\ fAddrPrefix = FALSE
    /\ aOpDesc = NoDesc
    /\ bModRM = -1
    /\ last = NoLast

NextIns ==
    \/ GetInstruction
    \/ PrefixLoop
    \/ GetDescriptor

SpecIns == InitIns /\ [][NextIns]_vars

-----------------------------------------------------------------------------
(* Claims about the instruction decoder *)

\* The descriptors of the tables of a CPU of model m
TableEntries(m) ==
    {initBus(m)[b] : b \in 1..256}
        \cup {e[2] : e \in aaOp0FDescs}
        \cup {aaGrpDescs[g][reg] : g \in {g \in 1..Len(aaGrpDescs) : aaGrpDescs[g] # <<>>},
                                   reg \in 1..8}
        \cup {aOpDescUndefined}

\* C19: for every CPU model, opcode byte, second byte after the 0x0F escape
\* and reg value of a group, getInstruction() does not fail on a missing
\* table entry, and the descriptor it ends with is an entry of the tables or
\* the undefined descriptor, with an ordinal that is an index of INS_NAMES
C19_DescriptorDefined ==
    /\ pcIns # "threw"
    /\ pcIns = "done" =>
          /\ aOpDesc # NoDesc
          /\ aOpDesc \in TableEntries(model)
          /\ aOpDesc[1] \in 0..(Len(INS_NAMES) - 1)

\* A second byte the two-byte table has no entry for has been given the
\* undefined descriptor, and a reg value the group of 0x0F 0x01 leaves out too
C19_GapIsUndefined ==
    /\ pcIns = "done"
    /\ model >= MODEL_80286
    /\ bOpcode % 256 = 15
    /\ aOpDesc = aOpDescUndefined
    /\ INS_NAMES[aOpDesc[1] + 1] = "INVALID"
    /\ \/ op0FDesc(bOpcode \div 256) = NoDesc /\ bModRM = -1
       \/ bOpcode \div 256 = 1 /\ (bModRM \div 8) % 8 = 5

\* The number of size prefixes in a row from offset i of the code
RECURSIVE RunAt(_)
RunAt(i) ==
    IF i < Len(aCode) /\ aCode[i + 1] \in {OPCODE_OS, OPCODE_AS}
    THEN 1 + RunAt(i + 1)
    ELSE 0

\* Whether one of the n bytes from offset i of the code is b
Among(i, n, b) == \E k \in (i + 1)..(i + n) : k <= Len(aCode) /\ aCode[k] = b

\* The number of bytes b in the run of size prefixes from offset i
OfKind(i, b) == Cardinality({k \in (i + 1)..(i + RunAt(i)) : aCode[k] = b})

Least(a, b) == IF a < b THEN a ELSE b

\* The dbgAddr the getInstruction() in progress was called with
CallAddr == last.pre[1]

\* C20 as the code has it: a call of getInstruction() consumes the size
\* prefixes before the opcode up to four of them in all, both kinds counted
\* together; the first prefix of a kind toggles its size and the later ones
\* of that kind leave it; the loop makes at most four passes, whatever the
\* length of the run, and the byte after the prefixes consumed is the opcode
C20_FourPrefixesInAll ==
    /\ pcIns = "loop" =>
          /\ cOverrides \in 0..4
          /\ cMaxOverrides = 4 - cOverrides
          /\ cOverrides <= RunAt(CallAddr.off)
          /\ dbgAddrCode.off = Least(CallAddr.off + cOverrides + 1, Len(aCode))
          /\ bOpcode = codeByte([off |-> CallAddr.off + cOverrides])
          /\ dbgAddrCode.fData32 =
                (CallAddr.fData32 # Among(CallAddr.off, cOverrides, OPCODE_OS))
          /\ dbgAddrCode.fAddr32 =
                (CallAddr.fAddr32 # Among(CallAddr.off, cOverrides, OPCODE_AS))
    /\ pcIns = "done" =>
          /\ cOverrides = Least(RunAt(CallAddr.off), 4)
          /\ bOpcode % 256 = codeByte([off |-> CallAddr.off + cOverrides])
          /\ dbgAddrCode.cOverrides = cOverrides

\* A run of five or more prefixes: four were consumed and the fifth was
\* decoded as the instruction
C20_FifthIsOpcode ==
    /\ pcIns = "done"
    /\ RunAt(CallAddr.off) >= 5
    /\ cOverrides = 4
    /\ bOpcode \in {OPCODE_OS, OPCODE_AS}
    /\ INS_NAMES[aOpDesc[1] + 1] \in {"OS:", "AS:"}
    /\ ~dbgAddrCode.fComplete

\* C20: getInstruction() consumes the size prefixes before an opcode as long
\* as there are at most four of each kind
C20_FourOfEachKind ==
    (/\ pcIns = "done"
     /\ OfKind(CallAddr.off, OPCODE_OS) <= 4
     /\ OfKind(CallAddr.off, OPCODE_AS) <= 4) =>
        /\ cOverrides = RunAt(CallAddr.off)
        /\ bOpcode % 256 \notin {OPCODE_OS, OPCODE_AS}

-----------------------------------------------------------------------------
(* Claims about the order of the breakpoint check and the history update *)

\* The history fields of a debugger record are those of the current state
SameHistory(D) ==
    /\ D.aaOpcodeCounts = aaOpcodeCounts
    /\ D.aOpcodeHistory = aOpcodeHistory
    /\ D.iOpcodeHistory = iOpcodeHistory

\* The history fields of a debugger record are freed: historyInit() has found
\* checksEnabled() false
FreedHistory(D) ==
    /\ D.aaOpcodeCounts = <<>>
    /\ D.aOpcodeHistory = <<>>
    /\ D.iOpcodeHistory = 0
    /\ ~checksEnabled(D)

FreshHistory(D) ==
    /\ D.aaOpcodeCounts = [b \in 1..256 |-> 0]
    /\ D.aOpcodeHistory = [i \in 1..HISTORY_LIMIT |-> newAddr(0, Null, Null, 0)]
    /\ D.iOpcodeHistory = 0
    /\ checksEnabled(D)

-----------------------------------------------------------------------------
(* Claims about the re-entrancy counter *)

\* C24: between the handlers, when no checkBreakpoint() call is in progress,
\* the re-entrancy counter nSuppressBreaks is 0
C24_CounterBackAtZero == nSuppressBreaks = 0

-----------------------------------------------------------------------------
(* Claims about the "if" and "else" breakpoint commands *)

\* The command sequence a has the form `if <cond>; A; else; B` with single
\* commands A and B
IfElseForm(a) ==
    /\ Len(a) = 4
    /\ IsIf(a[1])
    /\ ~IsIf(a[2]) /\ ~IsElse(a[2])
    /\ IsElse(a[3])
    /\ ~IsIf(a[4]) /\ ~IsElse(a[4])

\* The command j of the breakpoint of step k has run after that step
RanAfter(k, j) ==
    \E m \in Steps :
        /\ m > k
        /\ Step(m).e = "cmd"
        /\ Step(m).bp = Step(k).bp
        /\ Step(m).n = j

\* C28: when the commands `if <cond>; A; else; B` of a breakpoint run, A runs
\* if and only if the condition is true and B if and only if it is false
C28_ExactlyOneGroup ==
    \A k \in Steps :
        (Step(k).e = "cmd" /\ Step(k).n = 1 /\ IfElseForm(Step(k).bp.aCmds))
            => /\ RanAfter(k, 2) <=> doIf(Step(k).c)
               /\ RanAfter(k, 4) <=> ~doIf(Step(k).c)

-----------------------------------------------------------------------------
(* Claims about operators of equal precedence *)

\* The value of numbers with the operator chOp between any two, applied from
\* left to right, val being the value of the numbers before vals[i]
RECURSIVE LeftToRight(_, _, _, _)
LeftToRight(chOp, vals, i, val) ==
    IF ~val.ok \/ i > Len(vals) THEN val
    ELSE LeftToRight(chOp, vals, i + 1, binOp(chOp, val.v, vals[i]))

\* C29: "print" of three numbers with "-" between them, or with "/" between
\* them, prints (a-b)-c or (a/b)/c, whenever that is defined
C29_LeftToRight ==
    (/\ last.op = "print"
     /\ Literals(last.toks)
     /\ Len(last.toks) = 5
     /\ last.toks[2] \in {<<"-">>, <<"/">>}
     /\ last.toks[4] = last.toks[2]
     /\ LeftToRight(last.toks[2], NumbersOf(last.toks), 2,
                    Num(NumbersOf(last.toks)[1])).ok)
        => last.value = LeftToRight(last.toks[2], NumbersOf(last.toks), 2,
                                    Num(NumbersOf(last.toks)[1]))

-----------------------------------------------------------------------------
(* Stepping over an instruction: "p" and "pr" *)

\* X86.OPCODE: the opcodes doStep() steps over with a temporary breakpoint
OPCODE_INTO == 206
OPCODE_INTN == 205
OPCODE_LOOPNZ == 224
OPCODE_LOOPZ == 225
OPCODE_LOOP == 226
OPCODE_CALL == 232
OPCODE_CALLF == 154

\* The switch of doStep(): the length of an instruction that is stepped over
\* (an INT, a LOOP or a direct CALL), 0 for an instruction that is traced
stepLength(b) ==
    CASE b \in {OPCODE_INT3, OPCODE_INTO} -> 1
      [] b \in {OPCODE_INTN, OPCODE_LOOPNZ, OPCODE_LOOPZ, OPCODE_LOOP} -> 2
      [] b = OPCODE_CALL -> 3
      [] b = OPCODE_CALLF -> 5
      [] OTHER -> 0

\* doStep(): the address of the instruction after the one r, what getByte()
\* returned for CS:IP, begins with
stepOver(r, nSuppress) == incAddr(r.dbgAddr, stepLength(r.val), nSuppress)

\* doStep() after setTempBreakpoint(): a run that runCPU() refuses ends the step
stepRun(D, fAvail) == IF fAvail THEN startCPU(D) ELSE [D EXCEPT !.nStep = 0]

\* doTrace("t"): one instruction is stepped if the CPU is available
doTrace(D, lip, fAvail) == IF fAvail THEN stepCPU(D, lip) ELSE D

\* doStep(sCmd): "p" (fRegs FALSE) or "pr" (fRegs TRUE) with the CPU at lip; r
\* is what getByte() returned for CS:IP
doStepAt(D, lip, r, fRegs, fAvail) ==
    IF stepLength(r.val) = 0 THEN doTrace(D, lip, fAvail)
    ELSE stepRun(addBreakpoint([D EXCEPT !.nStep = IF fRegs THEN 2 ELSE 1], "exec",
                               stepOver(r, D.nSuppressBreaks), TRUE).D,
                 fAvail)

doStep(D, lip, fRegs, fAvail) ==
    IF D.nStep # 0 THEN D
    ELSE doStepAt(D, lip,
                  getByte(newAddr(getIP(lip), getCS, Null, 0), 0, D.nSuppressBreaks),
                  fRegs, fAvail)

\* "p" or "pr" at the prompt of the stopped CPU, whose next instruction is at
\* lip; the exec list takes at most max breakpoints and the counts count at
\* most cMax instructions
DoStep(lip, fRegs, fAvail, max, cMax) ==
    /\ ~cpuRunning
    /\ Len(aBreakExec) < max
    /\ \E D \in {doStep(Dbg, lip, fRegs, fAvail)} :
           /\ cOpcodesCounted(D.aaOpcodeCounts) <= cMax
           /\ Commit(D)
    /\ last' = Last("p", "exec", NoQuery, lip, fAvail, FALSE, nStep,
                    <<aBreakExec>>, <<>>)
    /\ UNCHANGED evalVars
    /\ UNCHANGED <<traceVars, insVars, aSymbolTable>>
    /\ UNCHANGED <<cpuMode, descLoaded, maskAddr, dbgAddrNextData>>

\* The most breakpoints of the exec list
MaxStepBreaks == 2

\* An address of the CS of a reset CPU that holds a CALL, and the address
\* after that instruction
AddrCall == AddrTop24 - 148

AddrAfterCall == AddrCall + 3

NextStep ==
    \/ \E lip \in {AddrCall, AddrTop24}, fRegs \in BOOLEAN, fAvail \in BOOLEAN :
          DoStep(lip, fRegs, fAvail, MaxStepBreaks, MaxCounted)
    \/ DoBreakSet("exec", LinQuery(AddrTop24), NoCmds, MaxStepBreaks)
    \/ \E q \in {LinQuery(AddrTop24), NoQuery}, fAvail \in BOOLEAN :
          DoRun(q, NoCmds, fAvail, MaxStepBreaks)
    \/ \E addr \in {AddrCall, AddrAfterCall, AddrTop24} :
          CheckInstruction(addr, MaxCounted)
    \/ \E lip \in {AddrAfterCall, AddrTop24} : DoHalt(lip)
    \/ DoBreakClearAll
    \/ Reset

SpecStep == Init /\ [][NextStep]_vars

-----------------------------------------------------------------------------
(* Claims about stepping and temporary breakpoints *)

\* C25: whenever the CPU is stopped, no step is in progress: the nStep that a
\* step-over command set when it started the CPU is back at 0
C25_StepEndsWithRun == ~cpuRunning => nStep = 0

\* C26: whenever the CPU is stopped and no step is in progress, the exec list
\* holds no temporary breakpoint
C26_NoTempLeft ==
    (~cpuRunning /\ nStep = 0)
        => \A i \in 1..Len(aBreakExec) : ~aBreakExec[i].fTempBreak

-----------------------------------------------------------------------------
(* Read and write breakpoints and the traps of the Bus *)

\* The most breakpoints of the read list and of the write list
MaxMemBreaks == 2

\* How often a trap is registered at most
MaxTraps == 2

\* %FFFFF0 (in the top 64Kb of the address space) and the base of the data
\* segment
MemQueries == {LinQuery(AddrTop24), LinQuery(BaseData)}

\* "br" or "bw" with an address, while no trap is registered cMax times
DoBreakSetMem(which, q, max, cMax) ==
    /\ \A t \in DOMAIN busMemBreaks : busMemBreaks[t] < cMax
    /\ DoBreakSet(which, q, NoCmds, max)

NextMem ==
    \/ \E which \in {"read", "write"}, q \in MemQueries :
          DoBreakSetMem(which, q, MaxMemBreaks, MaxTraps)
    \/ \E q \in MemQueries : DoBreakClear(q)
    \/ DoBreakClearAll
    \/ DoRun(NoQuery, NoCmds, TRUE, MaxMemBreaks)
    \/ \E which \in {"read", "write"} : CheckMemory(which, BaseData, 1, AddrTop20)

SpecMem == Init /\ [][NextMem]_vars

-----------------------------------------------------------------------------
(* Claims about the traps of the Bus *)

\* How many breakpoints of the list are at the linear address addr
BreaksAt(aBreak, addr) == Cardinality({i \in 1..Len(aBreak) : aBreak[i].addr = addr})

\* How often the trap <<addr, fWrite>> is registered
TrapsAt(addr, fWrite) ==
    IF <<addr, fWrite>> \in DOMAIN busMemBreaks THEN busMemBreaks[<<addr, fWrite>>] ELSE 0

\* The addresses of the breakpoints and of the traps
TrapAddrs ==
    {aBreakRead[i].addr : i \in 1..Len(aBreakRead)}
        \cup {aBreakWrite[i].addr : i \in 1..Len(aBreakWrite)}
        \cup {t[1] : t \in DOMAIN busMemBreaks}

\* C27: the traps registered with the Bus are those of the breakpoints of
\* the read and write lists: a read (write) trap is registered at an address
\* as often as the read (write) list has a breakpoint there
C27_TrapsMatchBreakpoints ==
    \A addr \in TrapAddrs :
        /\ TrapsAt(addr, FALSE) = BreaksAt(aBreakRead, addr)
        /\ TrapsAt(addr, TRUE) = BreaksAt(aBreakWrite, addr)

-----------------------------------------------------------------------------
(* The symbol table: addSymbols(), findSymbol() and returnSymbol() *)

\* A string is the sequence of its characters; JavaScript's null or undefined
\* where a string is expected (a name, a label, an annotation, a comment that
\* is not there) is the empty one
NoText == <<>>

\* fnComparePairs(p1, p2) of addSymbols() and of findSymbol(): pairs are
\* compared by their offset, the search key [offset] is a pair without a name
fnComparePairs(p1, p2) ==
    IF p1[1] > p2[1] THEN 1 ELSE IF p1[1] < p2[1] THEN -1 ELSE 0

\* usr.binarySearch(a, v, fnCompare), with the indexes counted from 0 as in
\* the code: the index of v, or -(the index v is to be inserted at) - 1
RECURSIVE binarySearchIn(_, _, _, _)
binarySearchAt(a, v, left, right, mid, c) ==
    IF c > 0 THEN binarySearchIn(a, v, mid + 1, right)
    ELSE IF c < 0 THEN binarySearchIn(a, v, left, mid - 1)
    ELSE mid

binarySearchMid(a, v, left, right, mid) ==
    binarySearchAt(a, v, left, right, mid, fnComparePairs(v, a[mid + 1]))

binarySearchIn(a, v, left, right) ==
    IF left > right THEN -(left + 1)
    ELSE binarySearchMid(a, v, left, right, (left + right) \div 2)

binarySearch(a, v) == binarySearchIn(a, v, 0, Len(a) - 1)

\* a.splice(index, 0, v)
splice(a, index, v) ==
    SubSeq(a, 1, index) \o <<v>> \o SubSeq(a, index + 1, Len(a))

\* usr.binaryInsert(a, v, fnCompare): v goes where the search says it is missing
binaryInserted(a, v, index) ==
    IF index < 0 THEN splice(a, -(index + 1), v) ELSE a

binaryInsert(a, v) == binaryInserted(a, v, binarySearch(a, v))

\* The for loop of addSymbols() over the symbols from the i-th on, in the
\* order of the object's properties: a symbol is [name, o, l, a, c], and one
\* without an offset (o undefined) gets no pair
RECURSIVE offsetPairs(_, _, _)
offsetPairs(aSymbols, i, aOffsetPairs) ==
    IF i > Len(aSymbols) THEN aOffsetPairs
    ELSE offsetPairs(aSymbols, i + 1,
                     IF aSymbols[i].o # Null
                     THEN binaryInsert(aOffsetPairs, <<aSymbols[i].o, aSymbols[i].name>>)
                     ELSE aOffsetPairs)

\* addSymbols(addr, size, aSymbols): the table [addr, size, aSymbols,
\* aOffsetPairs] it pushes
addSymbols(addr, size, aSymbols) ==
    [addr |-> addr, size |-> size, aSymbols |-> aSymbols,
     aOffsetPairs |-> offsetPairs(aSymbols, 1, <<>>)]

\* aSymbolTable[iTable][2][sSymbol]
symbolOf(table, sSymbol) ==
    CHOOSE symbol \in {table.aSymbols[i] : i \in 1..Len(table.aSymbols)} :
        symbol.name = sSymbol

\* returnSymbol() once it has the name of the pair: an anonymous entry (its
\* name begins with a period) has no name, a symbol with a label has the label
returnedName(sSymbol, symbol) ==
    IF sSymbol[1] = "." THEN NoText
    ELSE IF symbol.l # NoText THEN symbol.l ELSE sSymbol

returnNamed(offset, sSymbol, symbol, aSymbol) ==
    aSymbol \o <<returnedName(sSymbol, symbol), offset, symbol.a, symbol.c>>

\* returnSymbol(iTable, iOffset, aSymbol), iOffset counted from 0
returnSymbol(table, iOffset, aSymbol) ==
    IF iOffset >= 0 /\ iOffset < Len(table.aOffsetPairs)
    THEN returnNamed(table.aOffsetPairs[iOffset + 1][1],
                     table.aOffsetPairs[iOffset + 1][2],
                     symbolOf(table, table.aOffsetPairs[iOffset + 1][2]), aSymbol)
    ELSE aSymbol \o <<NoText, 0, NoText, NoText>>

\* bus.getSymbol(addr, true) of the Bus, which has no symbols of its own here
busGetSymbol(addr) == NoText

\* findSymbol() taking the entry at the insertion point for the preceding one
foundSymbolLater(table, fNearest, result) ==
    IF result >= 0 THEN returnSymbol(table, result, <<>>)
    ELSE IF fNearest
    THEN returnSymbol(table, -(result + 1) + 1,
                      returnSymbol(table, -(result + 1), <<>>))
    ELSE <<>>

\* findSymbol() with the result of the binary search in the table of the address
foundSymbol(table, fNearest, result) ==
    IF result >= 0 THEN returnSymbol(table, result, <<>>)
    ELSE IF fNearest
    THEN returnSymbol(table, -(result + 1),
                      returnSymbol(table, -(result + 1) - 1, <<>>))
    ELSE <<>>

\* The for loop of findSymbol() from the table iTable on (counted from 1)
RECURSIVE findSymbolFrom(_, _, _, _, _)
findSymbolFrom(aTables, iTable, addr, offset, fNearest) ==
    IF iTable > Len(aTables) THEN <<>>
    ELSE IF addr >= aTables[iTable].addr
            /\ addr < aTables[iTable].addr + aTables[iTable].size
    THEN foundSymbol(aTables[iTable], fNearest,
                     binarySearch(aTables[iTable].aOffsetPairs, <<offset>>))
    ELSE findSymbolFrom(aTables, iTable + 1, addr, offset, fNearest)

\* What findSymbol() returns when no table gave a symbol
orBusSymbol(aSymbol, addr) ==
    IF aSymbol = <<>> /\ busGetSymbol(addr) # NoText
    THEN <<busGetSymbol(addr), addr>> ELSE aSymbol

\* findSymbol(dbgAddr, fNearest) with the symbol tables aTables
findSymbol(aTables, dbgAddr, fNearest, nSuppress) ==
    orBusSymbol(findSymbolFrom(aTables, 1, getAddr(dbgAddr, 1, nSuppress).addr,
                               dbgAddr.off, fNearest),
                getAddr(dbgAddr, 1, nSuppress).addr)

\* What a handler of the symbol table was given and what it returned
LastSym(op, dbgAddr, fNearest, aSymbol) ==
    [op |-> op, dbgAddr |-> dbgAddr, fNearest |-> fNearest, aSymbol |-> aSymbol]

\* addSymbols(addr, size, aSymbols) as a component calls it when it has
\* loaded its symbols
AddSymbols(addr, size, aSymbols, max) ==
    /\ Len(aSymbolTable) < max
    /\ aSymbolTable' = Append(aSymbolTable, addSymbols(addr, size, aSymbols))
    /\ last' = LastSym("addSymbols", newAddr(0, 0, addr, ADDR_LINEAR), FALSE, <<>>)
    /\ UNCHANGED <<dbgVars, evalVars, histVars, traceVars, insVars>>

\* findSymbol(dbgAddr, fNearest) as the dump and the unassemble commands call it
FindSymbol(dbgAddr, fNearest) ==
    /\ last' = LastSym("findSymbol", dbgAddr, fNearest,
                       findSymbol(aSymbolTable, dbgAddr, fNearest, nSuppressBreaks))
    /\ UNCHANGED <<dbgVars, evalVars, histVars, traceVars, insVars, aSymbolTable>>

\* The most symbol tables
MaxTables == 2

\* The regions of the symbol tables: the real-mode segment 0x1000 from its
\* start, and from its offset 0x20 on, 0x30 bytes each
SelSymbols == 4096

SizeSymbols == 48

SymRegions == {SelSymbols * 16, SelSymbols * 16 + 32}

\* The symbols of a table: "A", "B", "C" with the label "c" and the
\* anonymous ".40" with an annotation
symbol(name, o, l, a) == [name |-> name, o |-> o, l |-> l, a |-> a, c |-> NoText]

SymNames ==
    {[name |-> <<"A">>, l |-> NoText, a |-> NoText],
     [name |-> <<"B">>, l |-> NoText, a |-> NoText],
     [name |-> <<"C">>, l |-> <<"c">>, a |-> NoText],
     [name |-> <<".", "4", "0">>, l |-> NoText, a |-> <<"M", "O", "V">>]}

\* The offsets of the symbols (0x10 and 0x20) and of the lookups
SymOffsets == {16, 32}

LookupOffsets == {8, 16, 24, 32, 40, 56}

\* The symbols a component loads: none, one, or two at different offsets in
\* either order
SymbolLists ==
    {<<>>}
    \cup {<<symbol(n.name, o, n.l, n.a)>> : n \in SymNames, o \in SymOffsets}
    \cup {<<symbol(n[1].name, o[1], n[1].l, n[1].a),
            symbol(n[2].name, o[2], n[2].l, n[2].a)>> :
          n \in {p \in SymNames \X SymNames : p[1] # p[2]},
          o \in {p \in SymOffsets \X SymOffsets : p[1] # p[2]}}

NextSym ==
    \/ \E addr \in SymRegions, aSymbols \in SymbolLists :
           AddSymbols(addr, SizeSymbols, aSymbols, MaxTables)
    \/ \E off \in LookupOffsets, fNearest \in BOOLEAN :
           FindSymbol(newAddr(off, SelSymbols, Null, ADDR_REAL), fNearest)

SpecSym == Init /\ [][NextSym]_vars

-----------------------------------------------------------------------------
(* Claims about the nearest symbols *)

\* The tables whose region holds the address of the last lookup, and the
\* first of them, the one findSymbol() searches
LookupAddr == getAddr(last.dbgAddr, 1, nSuppressBreaks).addr

LookupTables ==
    {i \in 1..Len(aSymbolTable) :
        /\ LookupAddr >= aSymbolTable[i].addr
        /\ LookupAddr < aSymbolTable[i].addr + aSymbolTable[i].size}

LookupTable ==
    aSymbolTable[CHOOSE i \in LookupTables : \A j \in LookupTables : i <= j]

\* The entries of the offset index of a table
IndexEntries(table) ==
    {table.aOffsetPairs[i] : i \in 1..Len(table.aOffsetPairs)}

\* The entries before and after the offset of the last lookup
EntriesBefore == {p \in IndexEntries(LookupTable) : p[1] < last.dbgAddr.off}

EntriesAfter == {p \in IndexEntries(LookupTable) : p[1] > last.dbgAddr.off}

\* The last lookup asked for the nearest symbols in a table that has no entry
\* at its offset
NearestMiss ==
    /\ last.op = "findSymbol"
    /\ last.fNearest
    /\ LookupTables # {}
    /\ \A p \in IndexEntries(LookupTable) : p[1] # last.dbgAddr.off

\* The name, offset, annotation and comment findSymbol() is to return for an
\* entry: the name is the symbol's label if it has one, and none if the
\* entry is anonymous
EntryOf(p) ==
    <<IF p[2][1] = "." THEN NoText
      ELSE IF symbolOf(LookupTable, p[2]).l # NoText
      THEN symbolOf(LookupTable, p[2]).l ELSE p[2],
      p[1], symbolOf(LookupTable, p[2]).a, symbolOf(LookupTable, p[2]).c>>

\* The closest of a set of entries on one side of the offset, or the four
\* values (no name, offset 0) that stand for no entry
ClosestOf(entries) ==
    IF entries = {} THEN <<NoText, 0, NoText, NoText>>
    ELSE EntryOf(CHOOSE p \in entries :
                    \A q \in entries :
                        \/ p[1] = q[1]
                        \/ (p[1] < last.dbgAddr.off /\ q[1] < p[1])
                        \/ (p[1] > last.dbgAddr.off /\ q[1] > p[1]))

\* C23: when findSymbol() is asked for the nearest symbols and the offset
\* index of the table has no entry at the offset, it returns the closest
\* preceding entry and then the closest following entry of the index
C23_NearestNeighbours ==
    NearestMiss => last.aSymbol = ClosestOf(EntriesBefore) \o ClosestOf(EntriesAfter)

\* C23: "A" at 0x10 and "B" at 0x20 were loaded, and the lookup of 0x18 with
\* fNearest has returned "A" (0x10) before "B" (0x20)
C23_BetweenAAndB ==
    /\ NearestMiss
    /\ last.dbgAddr.off = 24
    /\ Len(last.aSymbol) = 8
    /\ last.aSymbol[1] = <<"A">>
    /\ last.aSymbol[2] = 16
    /\ last.aSymbol[5] = <<"B">>
    /\ last.aSymbol[6] = 32

-----------------------------------------------------------------------------
(* The operands of an instruction: getInstruction() with its operand
   handlers getRegOperand(), getSIBOperand(), getModRMOperand() and
   getImmOperand().  A text is the sequence of its characters *)

\* The sizes of the size field of a type (type & Debugger.TYPE_SIZE)
TYPE_NONE == 0
TYPE_BYTE == 1
TYPE_SBYTE == 2
TYPE_WORD == 3
TYPE_VWORD == 4
TYPE_DWORD == 5
TYPE_FARP == 7
TYPE_2WORD == 8

\* The modes of the mode field of a type (type & Debugger.TYPE_MODE)
TYPE_IMM == 0
TYPE_ONE == 16
TYPE_IMMOFF == 32
TYPE_IMMREL == 48
TYPE_DSSI == 64
TYPE_ESDI == 80
TYPE_IMPREG == 96
TYPE_IMPSEG == 112
TYPE_MODRM == 128
TYPE_MODMEM == 144
TYPE_MODREG == 160
TYPE_SEGREG == 192
TYPE_CTLREG == 208
TYPE_DBGREG == 224
TYPE_TSTREG == 240

\* Debugger.REG_AX, REG_SEG, REG_EAX, REG_CR0, REG_DR0, REG_TR0: where the
\* registers of a kind begin in Debugger.REGS; REG_FS and REG_GS
REG_AX == 8
REG_SEG == 16
REG_EAX == 24
REG_CR0 == 32
REG_DR0 == 40
REG_TR0 == 48
REG_FS == 4
REG_GS == 5

\* X86.OPCODE.MOVSB, CMPSW, STOSB and SCASW, the bounds of isStringIns()
OPCODE_MOVSB == 164
OPCODE_CMPSW == 167
OPCODE_STOSB == 170
OPCODE_SCASW == 175

\* Debugger.RMS: the memory operands of a ModRM byte, 16-bit and 32-bit
RMS ==
    << <<"B", "X", "+", "S", "I">>, <<"B", "X", "+", "D", "I">>,
       <<"B", "P", "+", "S", "I">>, <<"B", "P", "+", "D", "I">>,
       <<"S", "I">>, <<"D", "I">>, <<"B", "P">>, <<"B", "X">>,
       <<"E", "A", "X">>, <<"E", "C", "X">>, <<"E", "D", "X">>, <<"E", "B", "X">>,
       <<"E", "S", "P">>, <<"E", "B", "P">>, <<"E", "S", "I">>, <<"E", "D", "I">>
    >>

\* type & TYPE_SIZE, type & TYPE_MODE, (type & TYPE_IREG) >> 8, type & TYPE_BOTH
\* and type >> TYPE_CPU_SHIFT
typeSizeOf(type) == type % 16

typeModeOf(type) == ((type \div 16) % 16) * 16

typeIRegOf(type) == (type \div 256) % 16

typeBothOf(type) == (type \div 4096) % 4

typeCPUOf(type) == type \div 16384

\* str.toHex(n, cch): the cch low hexadecimal digits of n
HexDigits ==
    <<"0", "1", "2", "3", "4", "5", "6", "7", "8", "9", "A", "B", "C", "D", "E", "F">>

RECURSIVE toHex(_, _)
toHex(n, cch) ==
    IF cch = 0 THEN <<>>
    ELSE toHex(n \div 16, cch - 1) \o <<HexDigits[(n % 16) + 1]>>

\* The byte, the 16-bit and the 32-bit value at the address of the code, as
\* getByte(), getShort() and getLong() read them
codeShort(dbgAddr) == codeByte(dbgAddr) + 256 * codeByte(codeNext(dbgAddr))

codeLong(dbgAddr) ==
    codeShort(dbgAddr) + 65536 * codeShort(codeNext(codeNext(dbgAddr)))

\* The address after inc bytes, as incAddr(dbgAddr, inc) advances it
RECURSIVE codeSkip(_, _)
codeSkip(dbgAddr, inc) ==
    IF inc = 0 THEN dbgAddr ELSE codeSkip(codeNext(dbgAddr), inc - 1)

\* (b << 24) >> 24: the byte as a signed number
signedByte(b) == IF b >= 128 THEN b - 256 ELSE b

\* What an operand handler returns: the text, and the address it has
\* advanced past the bytes it has read
Operand(s, dbgAddr) == [s |-> s, dbgAddr |-> dbgAddr]

\* getRegOperand(): the register of a general-purpose operand of the type
sizedReg(bReg, type, dbgAddr) ==
    IF typeSizeOf(type) >= TYPE_WORD
    THEN (IF bReg < REG_AX THEN bReg + REG_AX ELSE bReg)
         + (IF typeSizeOf(type) = TYPE_DWORD
               \/ (typeSizeOf(type) = TYPE_VWORD /\ dbgAddr.fData32)
            THEN REG_EAX - REG_AX ELSE 0)
    ELSE bReg

\* getRegOperand(bReg, type, dbgAddr) on a CPU of model m: the name of the
\* register, or nothing where Debugger.REGS has null
getRegOperand(bReg, type, dbgAddr, m) ==
    IF typeModeOf(type) = TYPE_SEGREG
    THEN IF bReg > REG_GS \/ (bReg >= REG_FS /\ m < MODEL_80386) THEN <<"?", "?">>
         ELSE REGS[bReg + REG_SEG + 1]
    ELSE IF typeModeOf(type) = TYPE_CTLREG THEN REGS[bReg + REG_CR0 + 1]
    ELSE IF typeModeOf(type) = TYPE_DBGREG THEN REGS[bReg + REG_DR0 + 1]
    ELSE IF typeModeOf(type) = TYPE_TSTREG THEN REGS[bReg + REG_TR0 + 1]
    ELSE REGS[sizedReg(bReg, type, dbgAddr) + 1]

\* getSIBOperand(bMod, dbgAddr) after it has read the SIB byte: the base
\* unless it is a displacement, the index unless it is 4, with its scale
sibBase(bMod, bBase) == IF bMod # 0 \/ bBase # 5 THEN RMS[bBase + 8 + 1] ELSE <<>>

sibScale(bScale) ==
    IF bScale # 0 THEN <<"*", HexDigits[2 ^ bScale + 1]>> ELSE <<>>

sibIndexed(sOperand, bIndex, bScale) ==
    IF bIndex # 4
    THEN sOperand \o (IF sOperand # <<>> THEN <<"+">> ELSE <<>>)
             \o RMS[bIndex + 8 + 1] \o sibScale(bScale)
    ELSE sOperand

sibDisplaced(sOperand, bMod, bBase, dbgAddr) ==
    IF bMod = 0 /\ bBase = 5
    THEN Operand(sOperand \o (IF sOperand # <<>> THEN <<"+">> ELSE <<>>)
                     \o toHex(codeLong(dbgAddr), 8),
                 codeSkip(dbgAddr, 4))
    ELSE Operand(sOperand, dbgAddr)

sibOperand(bMod, bSIB, dbgAddr) ==
    sibDisplaced(sibIndexed(sibBase(bMod, bSIB % 8), (bSIB \div 8) % 8, bSIB \div 64),
                 bMod, bSIB % 8, dbgAddr)

\* getSIBOperand(bMod, dbgAddr)
getSIBOperand(bMod, dbgAddr) == sibOperand(bMod, codeByte(dbgAddr), codeNext(dbgAddr))

\* getModRMOperand() for a memory operand: the registers of the address, and
\* the bMod that says which displacement follows ([s, dbgAddr, bMod])
modrmAddress(bMod, bRM, dbgAddr) ==
    IF bMod = 0 /\ ((~dbgAddr.fAddr32 /\ bRM = 6) \/ (dbgAddr.fAddr32 /\ bRM = 5))
    THEN [s |-> <<>>, dbgAddr |-> dbgAddr, bMod |-> 2]
    ELSE IF dbgAddr.fAddr32 /\ bRM = 4 /\ getSIBOperand(bMod, dbgAddr).s # <<>>
    THEN [s |-> getSIBOperand(bMod, dbgAddr).s,
          dbgAddr |-> getSIBOperand(bMod, dbgAddr).dbgAddr, bMod |-> bMod]
    ELSE [s |-> RMS[(IF dbgAddr.fAddr32 /\ bRM # 4 THEN bRM + 8 ELSE bRM) + 1],
          dbgAddr |-> IF dbgAddr.fAddr32 /\ bRM = 4
                      THEN getSIBOperand(bMod, dbgAddr).dbgAddr ELSE dbgAddr,
          bMod |-> bMod]

\* The displacement of the memory operand: a signed byte, or 16 or 32 bits
modrmDisp8(s, disp) ==
    IF disp < 128 THEN s \o <<"+">> \o toHex(disp, 2)
    ELSE s \o <<"-">> \o toHex(-signedByte(disp), 2)

modrmDisplaced(r) ==
    IF r.bMod = 1
    THEN Operand(modrmDisp8(r.s, codeByte(r.dbgAddr)), codeNext(r.dbgAddr))
    ELSE IF r.bMod = 2
    THEN IF ~r.dbgAddr.fAddr32
         THEN Operand(r.s \o (IF r.s # <<>> THEN <<"+">> ELSE <<>>)
                          \o toHex(codeShort(r.dbgAddr), 4),
                      codeSkip(r.dbgAddr, 2))
         ELSE Operand(r.s \o (IF r.s # <<>> THEN <<"+">> ELSE <<>>)
                          \o toHex(codeLong(r.dbgAddr), 8),
                      codeSkip(r.dbgAddr, 4))
    ELSE Operand(r.s, r.dbgAddr)

\* The size that prefixes the memory operand of an instruction with one operand
sizePrefixOf(size) ==
    IF size = TYPE_FARP THEN <<"F", "A", "R", " ">>
    ELSE IF size = TYPE_BYTE THEN <<"B", "Y", "T", "E", " ">>
    ELSE IF size = TYPE_WORD THEN <<"W", "O", "R", "D", " ">>
    ELSE IF size = TYPE_DWORD THEN <<"D", "W", "O", "R", "D", " ">>
    ELSE <<>>

sizePrefix(type, cOperands, dbgAddr) ==
    IF cOperands # 1 THEN <<>>
    ELSE IF typeSizeOf(type) = TYPE_VWORD
    THEN sizePrefixOf(IF dbgAddr.fData32 THEN TYPE_DWORD ELSE TYPE_WORD)
    ELSE sizePrefixOf(typeSizeOf(type))

modrmBracketed(r, type, cOperands) ==
    Operand(sizePrefix(type, cOperands, r.dbgAddr) \o <<"[">> \o r.s \o <<"]">>,
            r.dbgAddr)

\* getModRMOperand() treating a byte with mod 11 as it treats the others
getModRMOperandMem(bMRM, type, cOperands, dbgAddr, m) ==
    modrmBracketed(modrmDisplaced(modrmAddress((bMRM \div 64) % 3, bMRM % 8, dbgAddr)),
                   type, cOperands)

\* getModRMOperand(bModRM, type, cOperands, dbgAddr) on a CPU of model m
getModRMOperand(bMRM, type, cOperands, dbgAddr, m) ==
    IF bMRM \div 64 < 3
    THEN modrmBracketed(modrmDisplaced(modrmAddress(bMRM \div 64, bMRM % 8, dbgAddr)),
                        type, cOperands)
    ELSE Operand(getRegOperand(bMRM % 8, type, dbgAddr, m), dbgAddr)

\* hexOffset(off, sel, fAddr32) with a selector
hexOffset(off, sel, fAddr32) ==
    toHex(sel, 4) \o <<":">> \o toHex(off, IF off >= 65536 \/ fAddr32 THEN 8 ELSE 4)

\* The name findSymbol() has for the address sel:off, in parentheses, or nothing
symbolText(off, sel, nSuppress) ==
    IF findSymbol(aSymbolTable, newAddr(off, sel, Null, 0), FALSE, nSuppress) # <<>>
       /\ findSymbol(aSymbolTable, newAddr(off, sel, Null, 0), FALSE, nSuppress)[1] # NoText
    THEN <<" ", "(">>
         \o findSymbol(aSymbolTable, newAddr(off, sel, Null, 0), FALSE, nSuppress)[1]
         \o <<")">>
    ELSE <<>>

\* getWord(dbgAddr, true): 16 or 32 bits by the operand size
codeWord(dbgAddr) ==
    IF dbgAddr.fData32 THEN codeLong(dbgAddr) ELSE codeShort(dbgAddr)

codeWordSkip(dbgAddr) == codeSkip(dbgAddr, IF dbgAddr.fData32 THEN 4 ELSE 2)

\* getImmOperand(type, dbgAddr): a byte without TYPE_IN or TYPE_OUT is not
\* displayed, and it is not read
getImmOperand(type, dbgAddr, nSuppress) ==
    IF typeSizeOf(type) = TYPE_BYTE
    THEN IF typeBothOf(type) # 0
         THEN Operand(toHex(codeByte(dbgAddr), 2), codeNext(dbgAddr))
         ELSE Operand(<<" ">>, dbgAddr)
    ELSE IF typeSizeOf(type) = TYPE_SBYTE
    THEN Operand(toHex(signedByte(codeByte(dbgAddr)),
                       IF dbgAddr.fData32 THEN 8 ELSE 4),
                 codeNext(dbgAddr))
    ELSE IF typeSizeOf(type) \in {TYPE_VWORD, TYPE_2WORD} /\ dbgAddr.fData32
    THEN Operand(toHex(codeLong(dbgAddr), 8), codeSkip(dbgAddr, 4))
    ELSE IF typeSizeOf(type) \in {TYPE_VWORD, TYPE_2WORD, TYPE_WORD}
    THEN Operand(toHex(codeShort(dbgAddr), 4), codeSkip(dbgAddr, 2))
    ELSE IF typeSizeOf(type) = TYPE_FARP
    THEN Operand(hexOffset(codeWord(dbgAddr), codeShort(codeWordSkip(dbgAddr)),
                           dbgAddr.fAddr32)
                     \o symbolText(codeWord(dbgAddr), codeShort(codeWordSkip(dbgAddr)),
                                   nSuppress),
                 codeSkip(codeWordSkip(dbgAddr), 2))
    ELSE Operand(<<"i", "m", "m", "(">> \o toHex(type, 4) \o <<")">>, dbgAddr)

\* The operand of a type that reads no ModRM byte ([s, dbgAddr])
plainOperand(type, dbgAddr, m, nSuppress) ==
    IF typeModeOf(type) = TYPE_ONE THEN Operand(<<"1">>, dbgAddr)
    ELSE IF typeModeOf(type) = TYPE_IMM THEN getImmOperand(type, dbgAddr, nSuppress)
    ELSE IF typeModeOf(type) = TYPE_IMMOFF
    THEN IF ~dbgAddr.fAddr32
         THEN Operand(<<"[">> \o toHex(codeShort(dbgAddr), 4) \o <<"]">>,
                      codeSkip(dbgAddr, 2))
         ELSE Operand(<<"[">> \o toHex(codeLong(dbgAddr), 8) \o <<"]">>,
                      codeSkip(dbgAddr, 4))
    ELSE IF typeModeOf(type) = TYPE_IMMREL
    THEN IF typeSizeOf(type) = TYPE_BYTE
         THEN Operand(toHex(codeNext(dbgAddr).off + signedByte(codeByte(dbgAddr)),
                            IF dbgAddr.fData32 THEN 8 ELSE 4),
                      codeNext(dbgAddr))
         ELSE Operand(toHex(codeWordSkip(dbgAddr).off + codeWord(dbgAddr),
                            IF dbgAddr.fData32 THEN 8 ELSE 4),
                      codeWordSkip(dbgAddr))
    ELSE IF typeModeOf(type) = TYPE_IMPREG
    THEN Operand(getRegOperand(typeIRegOf(type), type, dbgAddr, m), dbgAddr)
    ELSE IF typeModeOf(type) = TYPE_IMPSEG
    THEN Operand(getRegOperand(typeIRegOf(type), TYPE_SEGREG, dbgAddr, m), dbgAddr)
    ELSE IF typeModeOf(type) = TYPE_DSSI
    THEN Operand(<<"D", "S", ":", "[", "S", "I", "]">>, dbgAddr)
    ELSE IF typeModeOf(type) = TYPE_ESDI
    THEN Operand(<<"E", "S", ":", "[", "D", "I", "]">>, dbgAddr)
    ELSE Operand(<<>>, dbgAddr)

\* The operand of a type with a mode from TYPE_MODRM on, the ModRM byte read
modrmOperand(bMRM, type, cOperands, dbgAddr, m) ==
    IF typeModeOf(type) < TYPE_MODREG
    THEN getModRMOperand(bMRM, type, cOperands, dbgAddr, m)
    ELSE IF typeModeOf(type) = TYPE_MODREG
    THEN Operand(getRegOperand(bMRM % 8, type, dbgAddr, m), dbgAddr)
    ELSE Operand(getRegOperand((bMRM \div 8) % 8, type, dbgAddr, m), dbgAddr)

\* isStringIns(bOpcode)
isStringIns(b) ==
    (b >= OPCODE_MOVSB /\ b <= OPCODE_CMPSW) \/ (b >= OPCODE_STOSB /\ b <= OPCODE_SCASW)

\* One pass of the operand loop reads the ModRM byte if the type has a mode
\* from TYPE_MODRM on and the byte has not been read
fetchedModRM(type, st) ==
    IF typeModeOf(type) >= TYPE_MODRM /\ st.bModRM < 0
    THEN [st EXCEPT !.bModRM = codeByte(st.dbgAddr), !.dbgAddr = codeNext(st.dbgAddr)]
    ELSE st

\* The operand of the pass ([s, dbgAddr])
operandOf(type, cOperands, st, m, nSuppress) ==
    IF typeModeOf(type) >= TYPE_MODRM
    THEN modrmOperand(st.bModRM, type, cOperands, st.dbgAddr, m)
    ELSE plainOperand(type, st.dbgAddr, m, nSuppress)

\* The end of the pass: an operand without a text makes the operands
\* "INVALID" and ends the loop, any other is appended after a comma
appendedOperand(st, type, r) ==
    [st EXCEPT
        !.dbgAddr = r.dbgAddr,
        !.fInvalid = (r.s = <<>>),
        !.sOperands = IF r.s = <<>> THEN <<"I", "N", "V", "A", "L", "I", "D">>
                      ELSE (IF @ # <<>> THEN @ \o <<",">> ELSE @) \o r.s,
        !.aOperands = Append(@, [type |-> type, s |-> r.s, bModRM |-> st.bModRM,
                                 fData32 |-> st.dbgAddr.fData32])]

\* The operand loop of getInstruction() from the operand iOperand on
RECURSIVE operands(_, _, _, _, _, _)
operands(aDesc, iOperand, cOperands, st, m, nSuppress) ==
    IF iOperand > cOperands \/ st.fInvalid THEN st
    ELSE IF typeSizeOf(aDesc[iOperand + 1]) = TYPE_NONE
    THEN operands(aDesc, iOperand + 1, cOperands, st, m, nSuppress)
    ELSE IF typeSizeOf(aDesc[iOperand + 1]) = TYPE_PREFIX
    THEN operands(aDesc, iOperand + 1, cOperands, [st EXCEPT !.fComplete = FALSE],
                  m, nSuppress)
    ELSE operands(aDesc, iOperand + 1, cOperands,
                  appendedOperand(fetchedModRM(aDesc[iOperand + 1], st),
                                  aDesc[iOperand + 1],
                                  operandOf(aDesc[iOperand + 1], cOperands,
                                            fetchedModRM(aDesc[iOperand + 1], st),
                                            m, nSuppress)),
                  m, nSuppress)

\* The prefix loop of getInstruction(), all its passes
RECURSIVE prefixed(_)
prefixed(p) ==
    IF whileOverrides(p.bOpcode, p.cMaxOverrides)
    THEN prefixed([bOpcode |-> codeByte(p.dbgAddr),
                   cMaxOverrides |-> decOverrides(p.bOpcode, p.cMaxOverrides),
                   cOverrides |-> p.cOverrides + 1,
                   fDataPrefix |-> (p.fDataPrefix \/ p.bOpcode = OPCODE_OS),
                   fAddrPrefix |-> (p.fAddrPrefix \/ p.bOpcode = OPCODE_AS),
                   dbgAddr |->
                       codeNext([p.dbgAddr EXCEPT
                                   !.fData32 = IF p.bOpcode = OPCODE_OS /\ ~p.fDataPrefix
                                               THEN ~@ ELSE @,
                                   !.fAddr32 = IF p.bOpcode = OPCODE_AS /\ ~p.fAddrPrefix
                                               THEN ~@ ELSE @])])
    ELSE [p EXCEPT !.cMaxOverrides = decOverrides(p.bOpcode, p.cMaxOverrides)]

\* getInstruction() from the descriptor d on, after the prefixes p: the
\* operands, and initAddrSize() for the next instruction
disassembled(p, d, st) ==
    [p |-> p, aOpDesc |-> d.aOpDesc, bOpcode |-> d.bOpcode, bModRM |-> st.bModRM,
     fThrew |-> FALSE, sOperands |-> st.sOperands, aOperands |-> st.aOperands,
     dbgAddrEnd |-> st.dbgAddr,
     dbgAddr |-> initAddrSize(st.dbgAddr, st.fComplete, p.cOverrides)]

described(p, d, m, nSuppress) ==
    IF d.aOpDesc = NoDesc
    THEN [p |-> p, aOpDesc |-> d.aOpDesc, bOpcode |-> d.bOpcode, bModRM |-> d.bModRM,
          fThrew |-> TRUE, sOperands |-> <<>>, aOperands |-> <<>>,
          dbgAddrEnd |-> d.dbgAddr, dbgAddr |-> d.dbgAddr]
    ELSE disassembled(p, d,
             operands(d.aOpDesc, 1,
                      IF isStringIns(d.bOpcode) THEN 0 ELSE Len(d.aOpDesc) - 1,
                      [dbgAddr |-> d.dbgAddr, bModRM |-> d.bModRM, sOperands |-> <<>>,
                       aOperands |-> <<>>, fComplete |-> TRUE, fInvalid |-> FALSE],
                      m, nSuppress))

afterPrefixes(p, m, nSuppress) ==
    described(p, grouped(escaped(initBus(m)[p.bOpcode + 1], p.dbgAddr, p.bOpcode)),
              m, nSuppress)

\* getInstruction(dbgAddr) on a CPU of model m, without the text of the line
getInstruction(dbgAddr, m, nSuppress) ==
    afterPrefixes(prefixed([bOpcode |-> codeByte(dbgAddr), cMaxOverrides |-> 4,
                            cOverrides |-> 0, fDataPrefix |-> FALSE,
                            fAddrPrefix |-> FALSE, dbgAddr |-> codeNext(dbgAddr)]),
                  m, nSuppress)

\* What getInstruction() was given and what it returned
LastIns(dbgAddrIns, g) ==
    [op |-> "getInstruction", dbgAddrIns |-> dbgAddrIns, aOpDesc |-> g.aOpDesc,
     bModRM |-> g.bModRM, sOperands |-> g.sOperands, aOperands |-> g.aOperands,
     fDataPrefix |-> g.p.fDataPrefix, fAddrPrefix |-> g.p.fAddrPrefix,
     dbgAddrEnd |-> g.dbgAddrEnd]

\* doUnassemble() calls getInstruction(), for the first instruction or after
\* one that was not complete, and getInstruction() returns
Unassemble ==
    /\ pcIns = "idle" \/ (pcIns = "done" /\ ~dbgAddrCode.fComplete)
    /\ \E g \in {getInstruction(dbgAddrCode, model, nSuppressBreaks)} :
           /\ bOpcode' = g.bOpcode
           /\ cMaxOverrides' = g.p.cMaxOverrides
           /\ cOverrides' = g.p.cOverrides
           /\ fDataPrefix' = g.p.fDataPrefix
           /\ fAddrPrefix' = g.p.fAddrPrefix
           /\ aOpDesc' = g.aOpDesc
           /\ bModRM' = g.bModRM
           /\ pcIns' = IF g.fThrew THEN "threw" ELSE "done"
           /\ dbgAddrCode' = g.dbgAddr
           /\ last' = LastIns(dbgAddrCode, g)
    /\ UNCHANGED aCode
    /\ UNCHANGED <<dbgVars, evalVars, histVars, traceVars, aSymbolTable>>

\* The bytes after the opcode and the ModRM byte: a SIB byte with the base
\* 101 and bytes of displacements and immediates
CodePad == <<5, 129, 2, 3, 4, 5, 6, 7, 8, 9, 10, 11>>

\* The ModRM bytes: every mod and reg with the rm 000, 100, 101 and 110, and
\* every rm with mod 11
OperandModRMs ==
    {mod * 64 + reg * 8 + rm : mod \in 0..2, reg \in 0..7, rm \in {0, 4, 5, 6}}
        \cup {192 + reg * 8 + rm : reg \in 0..7, rm \in 0..7}

\* The SIB bytes: base 000 and 101, index 000 and 100, every scale
OperandSIBs ==
    {scale * 64 + index * 8 + base : scale \in 0..3, index \in {0, 4}, base \in {0, 5}}

\* The code: every opcode and every second byte the table has after the
\* 0x0F escape (and one it does not have) with each of the ModRM bytes, MOV
\* reg,[SIB] with each of the SIB bytes, and instructions after a size prefix
OperandCodes ==
    {<<b, m>> \o CodePad : b \in (0..255) \ {15}, m \in OperandModRMs}
        \cup {<<15, b, m>> \o CodePad :
                 b \in {e[1] : e \in aaOp0FDescs} \cup {255}, m \in OperandModRMs}
        \cup {<<139, m, s>> \o CodePad : m \in {4, 68, 132}, s \in OperandSIBs}
        \cup {<<p, b, m>> \o CodePad :
                 p \in {OPCODE_OS, OPCODE_AS}, b \in {139, 184, 212}, m \in {4, 6, 192}}

\* The CPUs and the size of their code segment
OperandCPUs == {<<MODEL_8086, FALSE>>, <<MODEL_80386, FALSE>>, <<MODEL_80386, TRUE>>}

\* The state after construction with one of the codes to disassemble on one
\* of the CPUs
InitCode(codes, cpus) ==
    /\ cpuMode = "reset"
    /\ descLoaded = FALSE
    /\ maskAddr = BusLimit24
    /\ aBreakExec = <<>>
    /\ aBreakRead = <<>>
    /\ aBreakWrite = <<>>
    /\ nSuppressBreaks = 0
    /\ cpuRunning = FALSE
    /\ fRunning = FALSE
    /\ nStep = 0
    /\ busMemBreaks = <<>>
    /\ aSymbolTable = <<>>
    /\ bitsMessage = {}
    /\ dbgAddrNextData = newAddr(0, 0, Null, ADDR_REAL)
    /\ aVariables = <<>>
    /\ regEAX = 0
    /\ sInput = <<>>
    /\ DEBUG = FALSE
    /\ aOpcodeHistory = <<>>
    /\ iOpcodeHistory = 0
    /\ aaOpcodeCounts = <<>>
    /\ traceEnabled = {}
    /\ iTraceBuffer = 0
    /\ aTraceBuffer = <<>>
    /\ \E cpu \in cpus :
           /\ model = cpu[1]
           /\ dbgAddrCode = codeAddr(cpu[2])
    /\ aCode \in codes
    /\ pcIns = "idle"
    /\ bOpcode = 0
    /\ cMaxOverrides = 0
    /\ cOverrides = 0
    /\ fDataPrefix = FALSE
    /\ fAddrPrefix = FALSE
    /\ aOpDesc = NoDesc
    /\ bModRM = -1
    /\ last = NoLast

InitOps == InitCode(OperandCodes, OperandCPUs)

NextOps == Unassemble

SpecOps == InitOps /\ [][NextOps]_vars

-----------------------------------------------------------------------------
(* Claims about the bytes getInstruction() consumes *)

\* The sizes in effect in the instruction getInstruction() has decoded: those
\* it was called with, toggled by a prefix
InsData32 == last.dbgAddrIns.fData32 # last.fDataPrefix

InsAddr32 == last.dbgAddrIns.fAddr32 # last.fAddrPrefix

\* The byte of the instruction at the offset i from its first byte
InsByte(i) == aCode[last.dbgAddrIns.off + i + 1]

\* The bytes before the ModRM byte: the size prefixes, the opcode, and the
\* second opcode byte after the escape 0x0F where the CPU has it
InsEscaped == InsByte(cOverrides) = 15 /\ initBus(model)[16][1] = INS_OP0F

InsHead == cOverrides + 1 + (IF InsEscaped THEN 1 ELSE 0)

\* The descriptor of the opcode before a group replaces it
InsOpDesc ==
    IF InsEscaped THEN orUndefined(op0FDesc(InsByte(cOverrides + 1)))
    ELSE initBus(model)[InsByte(cOverrides) + 1]

\* The operand types of the instruction, none for a string instruction's
\* implied operands
InsTypes ==
    {aOpDesc[i] : i \in 2..Len(aOpDesc)}
        \ {type \in {aOpDesc[i] : i \in 2..Len(aOpDesc)} :
              typeSizeOf(type) \in {TYPE_NONE, TYPE_PREFIX}}

\* The instruction has a ModRM byte: its opcode is a group's, or an operand
\* is encoded in the byte
InsHasModRM ==
    \/ InsOpDesc[1] >= Len(INS_NAMES)
    \/ \E type \in InsTypes : typeModeOf(type) >= TYPE_MODRM

\* The SIB byte and the displacement after a ModRM byte b whose operand is
\* in memory, with 16-bit and with 32-bit addressing
MemBytes16(b) ==
    IF b \div 64 = 1 THEN 1
    ELSE IF b \div 64 = 2 \/ (b \div 64 = 0 /\ b % 8 = 6) THEN 2
    ELSE 0

MemBytes32(b, sib) ==
    (IF b % 8 = 4 THEN 1 ELSE 0)
    + (IF b \div 64 = 1 THEN 1
       ELSE IF b \div 64 = 2 \/ (b \div 64 = 0 /\ b % 8 = 5)
               \/ (b \div 64 = 0 /\ b % 8 = 4 /\ sib % 8 = 5) THEN 4
       ELSE 0)

InsMemBytes ==
    IF (\E type \in InsTypes : typeModeOf(type) \in {TYPE_MODRM, TYPE_MODMEM})
       /\ InsByte(InsHead) \div 64 # 3
    THEN IF InsAddr32 THEN MemBytes32(InsByte(InsHead), InsByte(InsHead + 1))
         ELSE MemBytes16(InsByte(InsHead))
    ELSE 0

\* The bytes an operand of the type has after the ModRM bytes: an immediate
\* of its size, an offset of the address size, a relative displacement
ImmBytes(type) ==
    IF typeModeOf(type) = TYPE_IMM
    THEN IF typeSizeOf(type) \in {TYPE_BYTE, TYPE_SBYTE} THEN 1
         ELSE IF typeSizeOf(type) = TYPE_WORD THEN 2
         ELSE IF typeSizeOf(type) \in {TYPE_VWORD, TYPE_2WORD}
         THEN (IF InsData32 THEN 4 ELSE 2)
         ELSE IF typeSizeOf(type) = TYPE_FARP THEN (IF InsData32 THEN 6 ELSE 4)
         ELSE 0
    ELSE IF typeModeOf(type) = TYPE_IMMOFF THEN (IF InsAddr32 THEN 4 ELSE 2)
    ELSE IF typeModeOf(type) = TYPE_IMMREL
    THEN IF typeSizeOf(type) = TYPE_BYTE THEN 1 ELSE IF InsData32 THEN 4 ELSE 2
    ELSE 0

RECURSIVE InsImmBytes(_)
InsImmBytes(i) ==
    IF i > Len(aOpDesc) THEN 0
    ELSE (IF typeSizeOf(aOpDesc[i]) \in {TYPE_NONE, TYPE_PREFIX} THEN 0
          ELSE ImmBytes(aOpDesc[i]))
         + InsImmBytes(i + 1)

\* The encoded length of the instruction
EncodedLength ==
    InsHead + (IF InsHasModRM THEN 1 ELSE 0) + InsMemBytes + InsImmBytes(2)

\* getInstruction() has returned
Decoded == last.op = "getInstruction" /\ pcIns = "done"

\* C21: getInstruction() advances the address by the encoded length of the
\* instruction: the prefixes and the opcode, the ModRM byte with its SIB
\* byte and displacement, and the immediate of every operand, where an
\* immediate of byte size is one byte whether or not it is displayed
C21_AdvancesByEncodedLength ==
    Decoded => last.dbgAddrEnd.off - last.dbgAddrIns.off = EncodedLength

\* The same for the instructions without an immediate byte that is not
\* displayed: these getInstruction() advances past
AdvancesButUndisplayed ==
    (Decoded /\ \A type \in InsTypes :
                   ~(typeModeOf(type) = TYPE_IMM /\ typeSizeOf(type) = TYPE_BYTE
                     /\ typeBothOf(type) = 0))
        => last.dbgAddrEnd.off - last.dbgAddrIns.off = EncodedLength

-----------------------------------------------------------------------------
(* getModRMOperand() on every ModRM byte and every type of its two modes *)

\* What getModRMOperand() was given and what it returned
LastModRM(bMRM, type, cOperands, dbgAddr, r) ==
    [op |-> "getModRMOperand", bModRM |-> bMRM, type |-> type,
     cOperands |-> cOperands, dbgAddr |-> dbgAddr, s |-> r.s]

\* The types getInstruction() passes to getModRMOperand(): the modes
\* TYPE_MODRM and TYPE_MODMEM with every value of the size field, input or not
ModRMTypes ==
    {mode + size + both * 4096 :
        mode \in {TYPE_MODRM, TYPE_MODMEM}, size \in 0..15, both \in {0, 3}}

\* getModRMOperand(bModRM, type, cOperands, dbgAddr) as getInstruction()
\* calls it for an operand, the address after the ModRM byte
GetModRMOperand ==
    /\ pcIns = "idle"
    /\ \E bMRM \in 0..255, type \in ModRMTypes, cOperands \in {1, 2} :
           \E r \in {getModRMOperand(bMRM, type, cOperands,
                                     codeNext(codeNext(dbgAddrCode)), model)} :
               /\ dbgAddrCode' = r.dbgAddr
               /\ bModRM' = bMRM
               /\ last' = LastModRM(bMRM, type, cOperands, dbgAddrCode, r)
    /\ pcIns' = "done"
    /\ UNCHANGED <<aCode, bOpcode, cMaxOverrides, cOverrides, fDataPrefix,
                   fAddrPrefix, aOpDesc>>
    /\ UNCHANGED <<dbgVars, evalVars, histVars, traceVars, aSymbolTable>>

\* MOV reg,r/m, whose second operand getModRMOperand() decodes
InitModRM == InitCode({<<139, 0>> \o CodePad}, OperandCPUs)

NextModRM == GetModRMOperand

SpecModRM == InitModRM /\ [][NextModRM]_vars

\* The names of the registers in Debugger.REGS
RegNames == {REGS[i] : i \in 1..Len(REGS)} \ {<<>>}

\* C22: for every ModRM byte with mod 11 and every operand type,
\* getModRMOperand() returns the name of a register, which is not empty and
\* has no bracket of a memory operand
C22_RegisterForMod11 ==
    (last.op = "getModRMOperand" /\ last.bModRM \div 64 = 3) =>
        /\ last.s \in RegNames
        /\ \A i \in 1..Len(last.s) : last.s[i] \notin {"[", "]"}

\* C22: getModRMOperand() has returned ESI for the ModRM byte 0xF6 (mod 11,
\* rm 110) of an operand of variable size, in a 32-bit code segment
C22_ReturnedESI ==
    /\ last.op = "getModRMOperand"
    /\ last.bModRM = 246
    /\ typeSizeOf(last.type) = TYPE_VWORD
    /\ last.dbgAddr.fData32
    /\ last.s = <<"E", "S", "I">>

====
